---- MODULE Spec2Model ----
(***************************************************************************)
(* Synapse logistics orchestration core.                                   *)
(*                                                                         *)
(*   Spec      the LangGraph workflow of LogisticsOrchestrator             *)
(*             (orchestrator/langgraph_orchestrator.py)                    *)
(*   FairSpec  the same workflow with weak fairness on its steps           *)
(*   SchedSpec the Router (core/model_capability.py) and the multi-model   *)
(*             Scheduler (core/multi_model_orchestrator.py)                *)
(*                                                                         *)
(* Confidence scores are Python floats in [0,1]; the model keeps them as   *)
(* integers in thousandths (0.6 is 600).                                   *)
(***************************************************************************)
EXTENDS Integers, Sequences, FiniteSets, TLC

VARIABLES
    \* ---- LogisticsState (langgraph_orchestrator.py:9-16) and the graph run
    disruption,            \* state["disruption"]
    current_agent,         \* state["current_agent"]
    agent_responses,       \* state["agent_responses"]
    final_solution,        \* state["final_solution"]
    escalation_needed,     \* state["escalation_needed"]
    confidence_score,      \* state["confidence_score"]
    conversation_history,  \* state["conversation_history"]
    node,                  \* the node the compiled graph runs next
    steps,                 \* graph steps taken in this run
    result,                \* what process_disruption handed to its caller
    \* ---- MultiModelOrchestrator (multi_model_orchestrator.py:6-10) and one execute call
    task_model_mapping,    \* LogisticsModelManager.task_model_mapping
    problem_context,       \* the disruption record handed to execute
    current_loaded_model,  \* self.current_loaded_model
    model_switch_count,    \* self.model_switch_count
    recommended_tasks,     \* task_analysis["recommended_tasks"]
    task_results,          \* the local list task_results
    idx,                   \* index of the task the for loop is at (1-based)
    pc,                    \* position inside execute_multi_model_analysis
    trace,                 \* the Scheduler's observable events, in order
    start_count,           \* model_switch_count when the running execute started
    start_model,           \* current_loaded_model when the running execute started
    prev_tasks,            \* the Router's previous output for this record
    analyses,              \* Router runs on the current record
    runs,                  \* execute calls started on this Scheduler
    returned,              \* what the last completed execute returned
    \* ---- one call of LMStudioManager.generate_response_for_agent (llm_manager.py)
    gw_agent_type,         \* the agent_type argument
    gw_content,            \* the text the model generates for the request
    gw_response,           \* the dict the call returned
    \* ---- one specialist agent (base_agent.py:15-29) and its process_task calls
    ag_kind,               \* which specialist: its key in the workflow's agent map
    ag_task,               \* the task dict of the call under way or last made
    ag_status,             \* self.state.status
    ag_confidence,         \* self.state.confidence
    ag_request,            \* the call made on the gateway: agent type, urgency, model
    ag_message,            \* what the last call handed back: an AgentMessage or a raise
    ag_pc,                 \* position inside process_task
    ag_calls,              \* process_task calls made on this agent
    \* ---- execute calls running as coroutines on one Scheduler (its
    \*      current_loaded_model and model_switch_count are the fields above)
    co_pc,                 \* each coroutine's position inside execute_multi_model_analysis
    co_idx,                \* the task each coroutine's for loop is at (1-based)
    co_tasks,              \* each coroutine's task_analysis["recommended_tasks"]
    co_changes             \* times current_loaded_model has changed value

wfVars == <<disruption, current_agent, agent_responses, final_solution,
            escalation_needed, confidence_score, conversation_history,
            node, steps, result>>

schedVars == <<task_model_mapping, problem_context, current_loaded_model,
               model_switch_count, recommended_tasks, task_results, idx, pc,
               trace, start_count, start_model, prev_tasks, analyses, runs,
               returned>>

gwVars == <<gw_agent_type, gw_content, gw_response>>

agVars == <<ag_kind, ag_task, ag_status, ag_confidence, ag_request, ag_message,
            ag_pc, ag_calls>>

coVars == <<co_pc, co_idx, co_tasks, co_changes>>

vars == <<disruption, current_agent, agent_responses, final_solution,
          escalation_needed, confidence_score, conversation_history,
          node, steps, result,
          task_model_mapping, problem_context, current_loaded_model,
          model_switch_count, recommended_tasks, task_results, idx, pc,
          trace, start_count, start_model, prev_tasks, analyses, runs,
          returned, gw_agent_type, gw_content, gw_response,
          ag_kind, ag_task, ag_status, ag_confidence, ag_request, ag_message,
          ag_pc, ag_calls, co_pc, co_idx, co_tasks, co_changes>>

\* ------------------------------------------------------------------ bounds
\* Specialist attempts of one run whose confidence may differ from the one before.
MaxVaried == 2
\* Words of a disruption description.
MaxWords == 3
\* execute calls on one Scheduler instance.
MaxRuns == 2
\* Graph steps explored in one run; the recursion limit is reached first.
MaxSteps == 60
\* TaskResults in a list handed to the Synthesizer on its own.
MaxResults == 3
\* Words of a text the gateway scores.
MaxContentWords == 2
\* Words and phrases of the text of a specialist's task.
MaxTaskWords == 2
\* process_task calls on one specialist.
MaxCalls == 2
\* Words of the description of a record handed to a concurrent execute call.
MaxCoWords == 1

\* --------------------------------------------------------------- constants
None == "<none>"
Missing == "<missing>"
NoResult == [kind |-> "none"]

HUMAN_ESCALATION_THRESHOLD == 600
CONFIDENCE_THRESHOLD == 800
RecursionLimit == 50
ErrorStateConfidence == 100
AgentErrorConfidence == 300
FallbackConfidence == 200
\* Config.MAX_ITERATIONS; no code of the workflow reads it.
MAX_ITERATIONS == 10

\* Confidence values a generated specialist result can carry: the extremes, both
\* thresholds and values on either side of each.
ConfGrid == {0, 550, 600, 700, 750, 800, 850, 1000}

ServiceTypes == {"grabfood", "grabexpress", "grabcar", Missing}

\* A generated analysis text is the set of its words.
AnalysisTexts == {{}, {"delay"}, {"GrabFood"}, {"restaurant"}, {"Package"},
                  {"GrabExpress"}, {"GrabFood", "Package"}}

\* The keys of the workflow's agent map.
Agents == {"grabfood", "grabexpress", "customer_service"}

\* A disruption record as the workflow reads it: whether it carries a description
\* and a service_type. The workflow adds "analysis" and "specialist_briefing".
Disruptions == [description : {"text", Missing}, service_type : ServiceTypes]

GraphNodes == {"disruption_analysis", "route_to_specialist",
               "execute_specialist_task", "validate_solution",
               "customer_communication", "escalate_to_human",
               "finalize_solution"}

EmptyDict == <<>>

\* dict[key] = value
Put(d, k, v) == (k :> v) @@ d
Has(d, k) == k \in DOMAIN d

\* ------------------------------------------------------------------ strings

\* str.lower() on a word.
Lower(w) ==
    CASE w = "Traffic" -> "traffic"
      [] w = "EMERGENCY" -> "emergency"
      [] w = "GrabFood" -> "grabfood"
      [] w = "GrabExpress" -> "grabexpress"
      [] w = "Package" -> "package"
      [] w = "Restaurant" -> "restaurant"
      [] w = "Sorry" -> "sorry"
      [] w = "Maybe" -> "maybe"
      [] w = "Temperature" -> "temperature"
      [] w = "Medical" -> "medical"
      [] w = "Frustrated" -> "frustrated"
      [] OTHER -> w

\* The keywords of the Router, of route_to_specialist, of the gateway's scoring and
\* of the specialists' classifiers that are substrings of a word or phrase
\* (case-sensitive, as `in` is).
KeywordsIn(w) ==
    CASE w = "traffic" -> {"traffic"}
      [] w = "rerouted" -> {"route"}
      [] w = "customer" -> {"customer"}
      [] w = "angry" -> {"angry"}
      [] w = "emergency" -> {"emergency"}
      [] w = "grabfood" -> {"food"}
      [] w = "restaurant" -> {"restaurant"}
      [] w = "package" -> {"package"}
      [] w = "grabexpress" -> {"express"}
      [] w = "delivery" -> {"delivery"}
      [] w = "sorry" -> {"sorry"}
      [] w = "coordinate" -> {"coordinate"}
      [] w = "maybe" -> {"maybe"}
      [] w = "mighty" -> {"might"}
      [] w = "food poisoning" -> {"food poisoning", "food"}
      [] w = "temperature" -> {"temperature"}
      [] w = "contamination" -> {"contamination"}
      [] w = "expired" -> {"expired"}
      [] w = "multiple" -> {"multiple"}
      [] w = "closed" -> {"closed"}
      [] w = "time-sensitive" -> {"time-sensitive"}
      [] w = "wrong address" -> {"wrong address", "address"}
      [] w = "medical" -> {"medical"}
      [] w = "furious" -> {"furious"}
      [] w = "frustrated" -> {"frustrated"}
      [] w = "upset" -> {"upset"}
      [] w = "confused" -> {"confused"}
      [] w = "unhappy" -> {"happy"}
      [] OTHER -> {}

LowerText(text) == {Lower(w) : w \in text}

\* `word in text`
Contains(text, word) == \E w \in text : word \in KeywordsIn(w)

\* any(word in text for word in words)
AnyIn(words, text) == \E word \in words : Contains(text, word)

\* ======================================================== workflow state machine

\* The specialists registered in the workflow, with the agent_id each reports.
AgentId(a) ==
    CASE a = "grabfood" -> "grabfood_specialist"
      [] a = "grabexpress" -> "grabexpress_specialist"
      [] OTHER -> "customer_service_specialist"

InRetryBand(c) == HUMAN_ESCALATION_THRESHOLD <= c /\ c < CONFIDENCE_THRESHOLD

\* _should_escalate: the branch taken after validate_solution.
ShouldEscalateStrict(confidence) ==
    IF confidence <= HUMAN_ESCALATION_THRESHOLD THEN "escalate"
    ELSE IF confidence <= CONFIDENCE_THRESHOLD THEN "retry"
    ELSE "communicate"

ShouldEscalateNoRetry(confidence) ==
    IF confidence < HUMAN_ESCALATION_THRESHOLD THEN "escalate"
    ELSE "communicate"

ShouldEscalate(confidence) ==
    IF confidence < HUMAN_ESCALATION_THRESHOLD THEN "escalate"
    ELSE IF confidence < CONFIDENCE_THRESHOLD THEN "retry"
    ELSE "communicate"

\* The conditional edges of validate_solution.
ConditionalEdgeMiswired(branch) ==
    CASE branch = "escalate" -> "customer_communication"
      [] branch = "communicate" -> "customer_communication"
      [] branch = "retry" -> "execute_specialist_task"

ConditionalEdge(branch) ==
    CASE branch = "escalate" -> "escalate_to_human"
      [] branch = "communicate" -> "customer_communication"
      [] branch = "retry" -> "execute_specialist_task"

\* The compiled graph stops a run that has used up its recursion_limit.
OutOfStepsNever(s) == FALSE

OutOfSteps(s) == s >= RecursionLimit

CanStep(n) == node = n /\ ~OutOfSteps(steps) /\ steps < MaxSteps

\* The except branch of process_disruption: the error state handed to the caller.
HandleExceptionReraise(d) == [kind |-> "raised"]

HandleException(d) ==
    [kind |-> "error_state",
     disruption |-> d,
     final_solution |-> [solution |-> <<"System error", 0>>,
                         confidence |-> ErrorStateConfidence],
     escalation_needed |-> TRUE,
     confidence_score |-> ErrorStateConfidence]

\* The final state graph.ainvoke returns when the run reaches END.
FinalState(d, agent, responses, solution, escalated, confidence, history) ==
    [kind |-> "final_state",
     disruption |-> d,
     current_agent |-> agent,
     agent_responses |-> responses,
     final_solution |-> solution,
     escalation_needed |-> escalated,
     confidence_score |-> confidence,
     conversation_history |-> history]

\* No gateway call is under way.
GatewayIdle ==
    /\ gw_agent_type = None
    /\ gw_content = EmptyDict
    /\ gw_response = NoResult

\* The coroutines that may run execute on the one Scheduler.
Coroutines == {"first", "second"}

\* No execute call runs as a coroutine.
CoIdle ==
    /\ co_pc = [c \in Coroutines |-> "idle"]
    /\ co_idx = [c \in Coroutines |-> 0]
    /\ co_tasks = [c \in Coroutines |-> <<>>]
    /\ co_changes = 0

\* No specialist agent has been constructed.
AgentIdle ==
    /\ ag_kind = None
    /\ ag_task = EmptyDict
    /\ ag_status = "idle"
    /\ ag_confidence = 0
    /\ ag_request = NoResult
    /\ ag_message = NoResult
    /\ ag_pc = "idle"
    /\ ag_calls = 0

\* A freshly constructed Scheduler with no execute call running.
SchedIdle ==
    /\ task_model_mapping = EmptyDict
    /\ problem_context = EmptyDict
    /\ current_loaded_model = None
    /\ model_switch_count = 0
    /\ recommended_tasks = <<>>
    /\ task_results = <<>>
    /\ idx = 0
    /\ pc = "idle"
    /\ trace = <<>>
    /\ start_count = 0
    /\ start_model = None
    /\ prev_tasks = <<>>
    /\ analyses = 0
    /\ runs = 0
    /\ returned = NoResult

Init ==
    /\ disruption = EmptyDict
    /\ current_agent = ""
    /\ agent_responses = <<>>
    /\ final_solution = EmptyDict
    /\ escalation_needed = FALSE
    /\ confidence_score = 0
    /\ conversation_history = <<>>
    /\ node = "idle"
    /\ steps = 0
    /\ result = NoResult
    /\ SchedIdle
    /\ GatewayIdle
    /\ AgentIdle
    /\ CoIdle

\* process_disruption: build the initial state and start the graph at its entry point.
ProcessDisruption ==
    /\ node = "idle"
    /\ \E d \in Disruptions : disruption' = d
    /\ current_agent' = ""
    /\ agent_responses' = <<>>
    /\ final_solution' = EmptyDict
    /\ escalation_needed' = FALSE
    /\ confidence_score' = 0
    /\ conversation_history' = <<>>
    /\ node' = "disruption_analysis"
    /\ steps' = 0
    /\ result' = NoResult
    /\ UNCHANGED <<schedVars, gwVars, agVars, coVars>>

\* analyze_disruption: the generated analysis (or the gateway's fallback text, which
\* holds no routing keyword) is logged and attached to the disruption.
AnalyzeDisruption ==
    /\ CanStep("disruption_analysis")
    /\ \E text \in AnalysisTexts :
         /\ conversation_history' =
              Append(conversation_history, [step |-> "disruption_analysis"])
         /\ disruption' = Put(disruption, "analysis", text)
    /\ node' = "route_to_specialist"
    /\ steps' = steps + 1
    /\ UNCHANGED <<current_agent, agent_responses, final_solution,
                   escalation_needed, confidence_score, result>>
    /\ UNCHANGED <<schedVars, gwVars, agVars, coVars>>

\* The specialist route_to_specialist picks.
SelectSpecialistCaseSensitive(analysis, service_type) ==
    IF Contains(analysis, "food") \/ Contains(analysis, "restaurant")
       \/ service_type = "grabfood"
    THEN "grabfood"
    ELSE IF Contains(analysis, "package") \/ Contains(analysis, "express")
            \/ service_type = "grabexpress"
    THEN "grabexpress"
    ELSE "customer_service"

SelectSpecialist(analysis, service_type) ==
    IF Contains(LowerText(analysis), "food") \/ Contains(LowerText(analysis), "restaurant")
       \/ service_type = "grabfood"
    THEN "grabfood"
    ELSE IF Contains(LowerText(analysis), "package")
            \/ Contains(LowerText(analysis), "express")
            \/ service_type = "grabexpress"
    THEN "grabexpress"
    ELSE "customer_service"

RouteToSpecialist ==
    /\ CanStep("route_to_specialist")
    /\ current_agent' = SelectSpecialist(disruption.analysis, disruption.service_type)
    /\ disruption' = Put(disruption, "specialist_briefing", "briefing")
    /\ node' = "execute_specialist_task"
    /\ steps' = steps + 1
    /\ UNCHANGED <<agent_responses, final_solution, escalation_needed,
                   confidence_score, conversation_history, result>>
    /\ UNCHANGED <<schedVars, gwVars, agVars, coVars>>

\* LMStudioManager.current_active_model: the model every gateway request names.
GatewayActiveModel == "qwen/qwen3-4b"

\* fallback_responses.get(agent_type, "System temporarily unavailable.")
FallbackText(agent_type) ==
    CASE agent_type = "grabfood" -> "Food delivery analysis temporarily unavailable."
      [] agent_type = "grabexpress" -> "Express delivery system offline."
      [] agent_type = "customer_service" -> "We're experiencing technical difficulties."
      [] agent_type = "orchestrator" -> "Coordination system temporarily offline."
      [] OTHER -> "System temporarily unavailable."

\* The response_dict execute_specialist_task builds from the specialist's AgentMessage.
\* n numbers the attempt, standing for the generated text; model is the
\* active_model of the gateway's response.
AgentResponse(agent, text, c, n, model) ==
    [agent_id |-> AgentId(agent),
     message_type |-> IF agent = "customer_service" THEN "customer_communication"
                      ELSE "task_completion",
     content |-> IF agent = "customer_service"
                 THEN [customer_message |-> <<text, n>>, confidence |-> c,
                       model_used |-> model,
                       escalation_needed |-> (c < 700)]
                 ELSE [solution |-> <<text, n>>, confidence |-> c,
                       model_used |-> model,
                       requires_escalation |-> (c < 600)],
     confidence |-> c]

\* The response_dict when the gateway's request raised: process_task builds its
\* message from _fallback_response for its own agent type.
GatewayFailureResponseGeneric(agent, n) ==
    AgentResponse(agent, "System temporarily unavailable.", FallbackConfidence, n,
                  "fallback")

GatewayFailureResponse(agent, n) ==
    AgentResponse(agent, FallbackText(agent), FallbackConfidence, n, "fallback")

\* The fallback response_dict of the except branch of execute_specialist_task.
AgentErrorResponse(agent, n) ==
    [agent_id |-> agent,
     message_type |-> "error",
     content |-> [solution |-> <<"agent error", n>>,
                  confidence |-> AgentErrorConfidence],
     confidence |-> AgentErrorConfidence]

\* What one specialist attempt can come back with: a generated text scored c, the
\* gateway's fallback text, or the except branch. After MaxVaried attempts a
\* confidence in the retry band repeats the one before.
AttemptResponses(agent, n, last) ==
    {AgentResponse(agent, "generated", c, n, GatewayActiveModel) :
        c \in {x \in ConfGrid : InRetryBand(x) /\ n > MaxVaried => x = last}}
    \cup {GatewayFailureResponse(agent, n)}
    \cup {AgentErrorResponse(agent, n)}

\* The task dict reads disruption["description"] and disruption["service_type"]
\* outside the try block.
TaskBuildFails(d) == d.description = Missing \/ d.service_type = Missing

\* self.agents[current_agent] raises KeyError for a key the agent map lacks.
AgentLookupFails(agent) == agent \notin Agents

\* An exception leaves the graph: process_disruption returns the error state.
Raise ==
    /\ result' = HandleException(disruption)
    /\ node' = "END"
    /\ UNCHANGED <<disruption, current_agent, agent_responses, final_solution,
                   escalation_needed, confidence_score, conversation_history, steps>>

\* The entry execute_specialist_task appends to agent_responses.
ResponseEntryByAgentId(agent, response) ==
    [agent |-> response.agent_id, response |-> response]

ResponseEntry(agent, response) == [agent |-> agent, response |-> response]

ExecuteSpecialistTask ==
    /\ CanStep("execute_specialist_task")
    /\ IF AgentLookupFails(current_agent) \/ TaskBuildFails(disruption)
       THEN Raise
       ELSE /\ \E response \in AttemptResponses(current_agent,
                                   Len(agent_responses) + 1, confidence_score) :
                 /\ agent_responses' =
                      Append(agent_responses,
                             ResponseEntry(current_agent, response))
                 /\ confidence_score' = response.confidence
            /\ node' = "validate_solution"
            /\ steps' = steps + 1
            /\ UNCHANGED <<disruption, current_agent, final_solution,
                           escalation_needed, conversation_history, result>>
    /\ UNCHANGED <<schedVars, gwVars, agVars, coVars>>

\* The solution text validate_solution extracts from the latest response.
ExtractSolution(content) ==
    IF Has(content, "solution") THEN content.solution
    ELSE <<"str(content)", content.customer_message[2]>>

ValidateSolutionFirstResponse ==
    /\ CanStep("validate_solution")
    /\ IF agent_responses = <<>>
       THEN final_solution' = [solution |-> <<"No solution generated", 0>>,
                               validation |-> "none", confidence |-> 100]
       ELSE LET latest == agent_responses[1].response IN
            final_solution' = [solution |-> ExtractSolution(latest.content),
                               validation |-> "validation",
                               confidence |-> latest.confidence]
    /\ node' = ConditionalEdge(ShouldEscalate(confidence_score))
    /\ steps' = steps + 1
    /\ UNCHANGED <<disruption, current_agent, agent_responses, escalation_needed,
                   confidence_score, conversation_history, result>>
    /\ UNCHANGED <<schedVars, gwVars, agVars, coVars>>

ValidateSolution ==
    /\ CanStep("validate_solution")
    /\ IF agent_responses = <<>>
       THEN final_solution' = [solution |-> <<"No solution generated", 0>>,
                               validation |-> "none", confidence |-> 100]
       ELSE LET latest == agent_responses[Len(agent_responses)].response IN
            final_solution' = [solution |-> ExtractSolution(latest.content),
                               validation |-> "validation",
                               confidence |-> latest.confidence]
    /\ node' = ConditionalEdge(ShouldEscalate(confidence_score))
    /\ steps' = steps + 1
    /\ UNCHANGED <<disruption, current_agent, agent_responses, escalation_needed,
                   confidence_score, conversation_history, result>>
    /\ UNCHANGED <<schedVars, gwVars, agVars, coVars>>

\* The edge out of customer_communication: unconditional, whatever the message.
CommunicationEdgeGated(communication) ==
    IF communication.confidence < HUMAN_ESCALATION_THRESHOLD
    THEN "escalate_to_human" ELSE "finalize_solution"

CommunicationEdge(communication) == "finalize_solution"

\* handle_customer_communication: the customer-service specialist's message, or the
\* except branch's error message, is attached to the solution.
HandleCustomerCommunication ==
    /\ CanStep("customer_communication")
    /\ \E communication \in
            {AgentResponse("customer_service", "generated", 950, 0,
                           GatewayActiveModel),
             GatewayFailureResponse("customer_service", 0)}
            \cup {[agent_id |-> "customer_service", message_type |-> "error",
                   content |-> [customer_message |-> <<"Communication error", 0>>],
                   confidence |-> AgentErrorConfidence]} :
         /\ final_solution' =
              Put(final_solution, "customer_communication", communication)
         /\ node' = CommunicationEdge(communication)
    /\ steps' = steps + 1
    /\ UNCHANGED <<disruption, current_agent, agent_responses, escalation_needed,
                   confidence_score, conversation_history, result>>
    /\ UNCHANGED <<schedVars, gwVars, agVars, coVars>>

\* The context escalate_to_human hands to the human operator.
EscalationContextLatestOnly ==
    [disruption |-> disruption,
     attempted_solutions |-> <<agent_responses[Len(agent_responses)]>>,
     confidence_scores |-> <<agent_responses[Len(agent_responses)].response.confidence>>,
     escalation_reason |-> "Low confidence score or complex scenario",
     recommended_actions |->
        IF Has(final_solution, "solution") THEN final_solution.solution
        ELSE <<"None generated", 0>>]

EscalationContext ==
    [disruption |-> disruption,
     attempted_solutions |-> agent_responses,
     confidence_scores |->
        [i \in 1..Len(agent_responses) |-> agent_responses[i].response.confidence],
     escalation_reason |-> "Low confidence score or complex scenario",
     recommended_actions |->
        IF Has(final_solution, "solution") THEN final_solution.solution
        ELSE <<"None generated", 0>>]

\* escalate_to_human, then END: the run returns its final state.
EscalateToHuman ==
    /\ CanStep("escalate_to_human")
    /\ escalation_needed' = TRUE
    /\ final_solution' = Put(final_solution, "escalation_context", EscalationContext)
    /\ node' = "END"
    /\ steps' = steps + 1
    /\ result' = FinalState(disruption, current_agent, agent_responses,
                            final_solution', TRUE, confidence_score,
                            conversation_history)
    /\ UNCHANGED <<disruption, current_agent, agent_responses, confidence_score,
                   conversation_history>>
    /\ UNCHANGED <<schedVars, gwVars, agVars, coVars>>

\* finalize_solution, then END: the run returns its final state.
FinalizeSolution ==
    /\ CanStep("finalize_solution")
    /\ node' = "END"
    /\ steps' = steps + 1
    /\ result' = FinalState(disruption, current_agent, agent_responses,
                            final_solution, escalation_needed, confidence_score,
                            conversation_history)
    /\ UNCHANGED <<disruption, current_agent, agent_responses, final_solution,
                   escalation_needed, confidence_score, conversation_history>>
    /\ UNCHANGED <<schedVars, gwVars, agVars, coVars>>

\* The graph has used up its recursion limit before reaching END.
GraphRecursionError ==
    /\ node \in GraphNodes
    /\ OutOfSteps(steps)
    /\ Raise
    /\ UNCHANGED <<schedVars, gwVars, agVars, coVars>>

Next ==
    \/ ProcessDisruption
    \/ AnalyzeDisruption
    \/ RouteToSpecialist
    \/ ExecuteSpecialistTask
    \/ ValidateSolution
    \/ HandleCustomerCommunication
    \/ EscalateToHuman
    \/ FinalizeSolution
    \/ GraphRecursionError

Spec == Init /\ [][Next]_vars

\* The event loop runs an awaited step to its end.
FairSpec == Init /\ [][Next]_vars /\ WF_vars(Next)

\* ===================================================================== Router

TaskTypes == {"route_optimization", "customer_communication", "strategic_planning",
              "sentiment_analysis", "emergency_response"}

DefaultModel == "qwen/qwen3-4b"

\* LogisticsModelManager.task_model_mapping as __init__ sets it.
\* The default table with the emergency tier served by the strategic model.
DefaultMappingSharedTier ==
    [t \in TaskTypes |->
        CASE t = "route_optimization" -> "qwen/qwen3-4b-thinking-2507"
          [] t = "customer_communication" -> "microsoft/phi-4-mini-reasoning"
          [] t = "strategic_planning" -> "deepseek/deepseek-r1-0528-qwen3-8b"
          [] t = "sentiment_analysis" -> "google/gemma-3-4b"
          [] t = "emergency_response" -> "deepseek/deepseek-r1-0528-qwen3-8b"]

DefaultMapping ==
    [t \in TaskTypes |->
        CASE t = "route_optimization" -> "qwen/qwen3-4b-thinking-2507"
          [] t = "customer_communication" -> "microsoft/phi-4-mini-reasoning"
          [] t = "strategic_planning" -> "deepseek/deepseek-r1-0528-qwen3-8b"
          [] t = "sentiment_analysis" -> "google/gemma-3-4b"
          [] t = "emergency_response" -> "qwen/qwen3-1.7b"]

\* A deployment that serves the task kinds from two resident models: gemma for
\* the two kinds named, the route model for the rest.
SharedMapping(onGemma) ==
    [t \in TaskTypes |->
        IF t \in onGemma THEN "google/gemma-3-4b" ELSE "qwen/qwen3-4b-thinking-2507"]

\* The mappings a model manager is configured with: the default one, and
\* deployments on two models or on one.
Mappings ==
    {DefaultMapping, SharedMapping({}),
     SharedMapping({"sentiment_analysis"}),
     SharedMapping({"customer_communication", "emergency_response"})}

\* Words a description is made of. A description is the set of its words.
Vocabulary == {"Traffic", "rerouted", "customer", "angry", "EMERGENCY", "late"}

Urgencies == {"high", "complex", "medium"}

Descriptions == {d \in SUBSET Vocabulary : Cardinality(d) <= MaxWords}

\* The disruption records handed to the Scheduler; a record may lack either key.
Contexts ==
    [description : Descriptions, urgency : Urgencies]
    \cup [description : Descriptions] \cup [urgency : Urgencies]

\* dict.get(key, default)
Get(d, k, default) == IF k \in DOMAIN d THEN d[k] ELSE default

\* get_model_for_task
GetModelForTask(mapping, t) == IF t \in DOMAIN mapping THEN mapping[t] ELSE DefaultModel

RouterTask(mapping, t, priority) ==
    [task |-> t, model |-> GetModelForTask(mapping, t), priority |-> priority]

\* A Router that tests the description as written, without lower().
AnalyzeProblemRequirementsCaseSensitive(ctx, mapping) ==
    LET description == Get(ctx, "description", {})
        urgency == Get(ctx, "urgency", "medium")
        r1 == IF AnyIn({"traffic", "route", "location", "delivery"}, description)
              THEN <<RouterTask(mapping, "route_optimization", "high")>> ELSE <<>>
        r2 == IF AnyIn({"customer", "notification", "communication"}, description)
              THEN Append(r1, RouterTask(mapping, "customer_communication", "high"))
              ELSE r1
        r3 == IF AnyIn({"angry", "frustrated", "complaint"}, description)
              THEN Append(r2, RouterTask(mapping, "sentiment_analysis", "medium"))
              ELSE r2
        r4 == IF Len(r3) > 1 \/ urgency \in {"high", "complex"}
              THEN Append(r3, RouterTask(mapping, "strategic_planning", "high"))
              ELSE r3
    IN  IF urgency = "high" \/ Contains(description, "emergency")
        THEN Append(r4, RouterTask(mapping, "emergency_response", "critical"))
        ELSE r4

\* A Router that applies the strategic-planning rule after the emergency rule.
AnalyzeProblemRequirementsAnchorLast(ctx, mapping) ==
    LET description == LowerText(Get(ctx, "description", {}))
        urgency == Get(ctx, "urgency", "medium")
        r1 == IF AnyIn({"traffic", "route", "location", "delivery"}, description)
              THEN <<RouterTask(mapping, "route_optimization", "high")>> ELSE <<>>
        r2 == IF AnyIn({"customer", "notification", "communication"}, description)
              THEN Append(r1, RouterTask(mapping, "customer_communication", "high"))
              ELSE r1
        r3 == IF AnyIn({"angry", "frustrated", "complaint"}, description)
              THEN Append(r2, RouterTask(mapping, "sentiment_analysis", "medium"))
              ELSE r2
        r4 == IF urgency = "high" \/ Contains(description, "emergency")
              THEN Append(r3, RouterTask(mapping, "emergency_response", "critical"))
              ELSE r3
    IN  IF Len(r4) > 1 \/ urgency \in {"high", "complex"}
        THEN Append(r4, RouterTask(mapping, "strategic_planning", "high"))
        ELSE r4

\* analyze_problem_requirements: the recommended_tasks list.
AnalyzeProblemRequirements(ctx, mapping) ==
    LET description == LowerText(Get(ctx, "description", {}))
        urgency == Get(ctx, "urgency", "medium")
        r1 == IF AnyIn({"traffic", "route", "location", "delivery"}, description)
              THEN <<RouterTask(mapping, "route_optimization", "high")>> ELSE <<>>
        r2 == IF AnyIn({"customer", "notification", "communication"}, description)
              THEN Append(r1, RouterTask(mapping, "customer_communication", "high"))
              ELSE r1
        r3 == IF AnyIn({"angry", "frustrated", "complaint"}, description)
              THEN Append(r2, RouterTask(mapping, "sentiment_analysis", "medium"))
              ELSE r2
        r4 == IF Len(r3) > 1 \/ urgency \in {"high", "complex"}
              THEN Append(r3, RouterTask(mapping, "strategic_planning", "high"))
              ELSE r3
    IN  IF urgency = "high" \/ Contains(description, "emergency")
        THEN Append(r4, RouterTask(mapping, "emergency_response", "critical"))
        ELSE r4

\* ================================================================== Scheduler

\* Confidence the gateway computes for a generated text of a specialist_<task> call.
TaskConfidences == {550, 850}

\* generate_response_for_agent for a specialist_<task> agent type: a scored text, or
\* the fallback response of its except branch.
GatewayResponses ==
    {[content |-> "generated", provider |-> "lm_studio", confidence |-> c] :
        c \in TaskConfidences}
    \cup {[content |-> "System temporarily unavailable.",
           provider |-> "lm_studio_fallback",
           confidence |-> FallbackConfidence, error |-> "error"]}

\* The dict _execute_specialized_task returns.
ExecuteSpecializedTaskFailedTier(task, response) ==
    [task |-> task.task, model |-> task.model,
     priority |-> IF Has(response, "error") THEN "failed" ELSE task.priority,
     response |-> response.content, confidence |-> response.confidence,
     specialized |-> TRUE]

ExecuteSpecializedTask(task, response) ==
    [task |-> task.task, model |-> task.model, priority |-> task.priority,
     response |-> response.content, confidence |-> response.confidence,
     specialized |-> TRUE]

\* The test guarding the call of _switch_model.
NeedsSwitchWhenLoaded(optimal_model, loaded) ==
    loaded # None /\ optimal_model # loaded

NeedsSwitchAlways(optimal_model, loaded) == TRUE

NeedsSwitchNever(optimal_model, loaded) == FALSE

NeedsSwitch(optimal_model, loaded) == optimal_model # loaded

\* _switch_model once its delay is over: the loaded model and the switch count.
SwitchModelKeepLoaded(new_model, loaded, count) ==
    IF new_model # loaded THEN [model |-> loaded, count |-> count + 1]
    ELSE [model |-> loaded, count |-> count]

SwitchModel(new_model, loaded, count) ==
    IF new_model # loaded THEN [model |-> new_model, count |-> count + 1]
    ELSE [model |-> loaded, count |-> count]

\* task_results.append(result)
AppendResultFirst(results, r) == <<r>> \o results

AppendResult(results, r) == Append(results, r)

\* The for loop moves to the next task whatever the call returned.
NextTask(i, response, n) == i + 1

\* The Router's output for the record execute was called with.
RouterOutputSkipLoaded ==
    SelectSeq(AnalyzeProblemRequirements(problem_context, task_model_mapping),
              LAMBDA t : t.model # current_loaded_model)

RouterOutput == AnalyzeProblemRequirements(problem_context, task_model_mapping)

CallEvent(i) == [ev |-> "call", task |-> i, model |-> GatewayActiveModel]

\* ---------------------------------------------------------------- Synthesizer

Min2(a, b) == IF a < b THEN a ELSE b

Max2(a, b) == IF a > b THEN a ELSE b

Priorities == <<"critical", "high", "medium">>

\* priority_weights.get(priority, 0.5), in tenths.
PriorityWeight(priority) ==
    CASE priority = "critical" -> 10
      [] priority = "high" -> 8
      [] priority = "medium" -> 6
      [] OTHER -> 5

\* The for loop of _calculate_multi_model_confidence: weighted_sum and total_weight
\* after the first n results.
RECURSIVE WeightedSum(_, _)
WeightedSum(results, n) ==
    IF n = 0 THEN 0
    ELSE WeightedSum(results, n - 1)
         + results[n].confidence * PriorityWeight(results[n].priority)

RECURSIVE TotalWeight(_, _)
TotalWeight(results, n) ==
    IF n = 0 THEN 0
    ELSE TotalWeight(results, n - 1) + PriorityWeight(results[n].priority)

\* len(set(r['model'] for r in task_results))
UniqueModels(results) ==
    Cardinality({results[i].model : i \in 1..Len(results)})

\* min(0.15, unique_models * 0.03)
DiversityBonus(unique_models) == Min2(150, unique_models * 30)

\* _calculate_multi_model_confidence. The weighted mean is a fraction: the value
\* returned is num / den thousandths, den being total_weight in tenths.
CalculateMultiModelConfidenceUnweighted(results) ==
    IF results = <<>> THEN [num |-> 0, den |-> 1]
    ELSE LET sum == WeightedSum([i \in 1..Len(results) |->
                                    [confidence |-> results[i].confidence,
                                     priority |-> "critical"]], Len(results))
             total_weight == 10 * Len(results)
             bonus == DiversityBonus(UniqueModels(results))
         IN  [num |-> Min2(950 * total_weight, sum + bonus * total_weight),
              den |-> total_weight]

CalculateMultiModelConfidenceNeutralEmpty(results) ==
    IF results = <<>> THEN [num |-> 500, den |-> 1]
    ELSE LET weighted_sum == WeightedSum(results, Len(results))
             total_weight == TotalWeight(results, Len(results))
             bonus == DiversityBonus(UniqueModels(results))
         IN  [num |-> Min2(950 * total_weight, weighted_sum + bonus * total_weight),
              den |-> total_weight]

CalculateMultiModelConfidence(results) ==
    IF results = <<>> THEN [num |-> 0, den |-> 1]
    ELSE LET weighted_sum == WeightedSum(results, Len(results))
             total_weight == TotalWeight(results, Len(results))
             bonus == DiversityBonus(UniqueModels(results))
         IN  [num |-> Min2(950 * total_weight, weighted_sum + bonus * total_weight),
              den |-> total_weight]

\* LogisticsModelManager.urgency_model_map and get_model_by_urgency.
GetModelByUrgency(urgency_level) ==
    CASE urgency_level = "urgent" -> "qwen/qwen3-1.7b"
      [] urgency_level = "medium" -> "microsoft/phi-4-mini-reasoning"
      [] urgency_level = "complex" -> "deepseek/deepseek-r1-0528-qwen3-8b"
      [] urgency_level = "customer" -> "microsoft/phi-4-mini-reasoning"
      [] urgency_level = "spatial" -> "qwen/qwen3-4b-thinking-2507"
      [] OTHER -> DefaultModel

\* agent_task_mapping[agent_type]["primary"], for the agent types it holds.
PrimaryTask(agent_type) ==
    CASE agent_type = "grabfood" -> "route_optimization"
      [] agent_type = "grabexpress" -> "strategic_planning"
      [] agent_type = "customer_service" -> "customer_communication"
      [] agent_type = "orchestrator" -> "strategic_planning"
      [] OTHER -> None

\* get_optimal_model_for_agent: the model the gateway reports as optimal_model.
GetOptimalModelForAgent(mapping, agent_type, urgency) ==
    IF urgency = "urgent" THEN GetModelByUrgency("urgent")
    ELSE IF urgency = "complex" THEN GetModelByUrgency("complex")
    ELSE IF PrimaryTask(agent_type) \in DOMAIN mapping
         THEN mapping[PrimaryTask(agent_type)]
    ELSE DefaultModel

\* The model named in the request generate_response_for_agent sends.
RequestModel(mapping, agent_type, urgency) == GatewayActiveModel

\* The prompt sections of _synthesize_multi_model_results: one per priority that
\* has results, each listing the task and the model of its results.
SectionOf(results, priority) ==
    LET bucket == SelectSeq(results, LAMBDA r : r.priority = priority)
    IN  [priority |-> priority,
         entries |-> [i \in 1..Len(bucket) |->
                        [task |-> bucket[i].task, model |-> bucket[i].model]]]

SynthesisSectionsByArrival(results) ==
    [i \in 1..Len(results) |->
        [priority |-> results[i].priority,
         entries |-> <<[task |-> results[i].task, model |-> results[i].model]>>]]

SynthesisSections(results) ==
    SelectSeq([i \in 1..3 |-> SectionOf(results, Priorities[i])],
              LAMBDA section : section.entries # <<>>)

\* The request of the final synthesis call.
SynthesisCallEvent(results) ==
    [ev |-> "synthesis_call",
     sections |-> SynthesisSections(results),
     model |-> RequestModel(task_model_mapping, "master_synthesizer", "complex"),
     optimal_model |-> GetOptimalModelForAgent(task_model_mapping,
                                               "master_synthesizer", "complex")]

\* Confidence the gateway computes for a generated unified plan.
SynthesisConfidences == {550, 850}

\* generate_response_for_agent("master_synthesizer", ...): a scored plan, or the
\* fallback response.
SynthesisResponses ==
    {[content |-> "unified plan", provider |-> "lm_studio", confidence |-> c] :
        c \in SynthesisConfidences}
    \cup {[content |-> "System temporarily unavailable.",
           provider |-> "lm_studio_fallback",
           confidence |-> FallbackConfidence, error |-> "error"]}

\* The dict _synthesize_multi_model_results returns.
SynthesizeMultiModelResults(results, synthesis_response) ==
    [unified_plan |-> synthesis_response.content,
     synthesis_confidence |-> synthesis_response.confidence,
     models_synthesized |-> UniqueModels(results),
     priority_levels |->
        Cardinality({results[i].priority : i \in 1..Len(results)}),
     comprehensive |-> TRUE]

\* A Scheduler is constructed around a model manager.
SchedInit ==
    /\ disruption = EmptyDict
    /\ current_agent = ""
    /\ agent_responses = <<>>
    /\ final_solution = EmptyDict
    /\ escalation_needed = FALSE
    /\ confidence_score = 0
    /\ conversation_history = <<>>
    /\ node = "idle"
    /\ steps = 0
    /\ result = NoResult
    /\ task_model_mapping \in Mappings
    /\ problem_context = [urgency |-> "medium"]
    /\ current_loaded_model = None
    /\ model_switch_count = 0
    /\ recommended_tasks = <<>>
    /\ task_results = <<>>
    /\ idx = 0
    /\ pc = "idle"
    /\ trace = <<>>
    /\ start_count = 0
    /\ start_model = None
    /\ prev_tasks = <<>>
    /\ analyses = 0
    /\ runs = 0
    /\ returned = NoResult
    /\ GatewayIdle
    /\ AgentIdle
    /\ CoIdle

\* execute_multi_model_analysis is called with a disruption record. The first call
\* of a Scheduler gets any record; a later call gets the record of the call before
\* again, or one without a description.
Execute ==
    /\ pc = "idle"
    /\ runs < MaxRuns
    /\ \E ctx \in Contexts :
         /\ runs = 0 \/ ctx = problem_context \/ ctx \in [urgency : Urgencies]
         /\ problem_context' = ctx
         /\ analyses' = IF runs > 0 /\ ctx = problem_context THEN analyses ELSE 0
    /\ prev_tasks' = recommended_tasks
    /\ runs' = runs + 1
    /\ start_count' = model_switch_count
    /\ start_model' = current_loaded_model
    /\ task_results' = <<>>
    /\ trace' = <<>>
    /\ idx' = 0
    /\ returned' = NoResult
    /\ pc' = "analyze"
    /\ UNCHANGED <<task_model_mapping, current_loaded_model, model_switch_count,
                   recommended_tasks>>
    /\ UNCHANGED <<wfVars, gwVars, agVars, coVars>>

\* Step 1: the Router is run on the record.
Analyze ==
    /\ pc = "analyze"
    /\ recommended_tasks' = RouterOutput
    /\ analyses' = analyses + 1
    /\ idx' = 1
    /\ pc' = "loop"
    /\ UNCHANGED <<task_model_mapping, problem_context, current_loaded_model,
                   model_switch_count, task_results, trace, start_count,
                   start_model, prev_tasks, runs, returned>>
    /\ UNCHANGED <<wfVars, gwVars, agVars, coVars>>

\* Step 2, one task: either _switch_model starts its delay, or no switch is needed
\* and the gateway request of the task is sent.
BeginTask ==
    /\ pc = "loop"
    /\ idx <= Len(recommended_tasks)
    /\ IF NeedsSwitch(recommended_tasks[idx].model, current_loaded_model)
       THEN /\ pc' = "switching"
            /\ trace' = Append(trace, [ev |-> "switch_start", task |-> idx])
       ELSE /\ pc' = "gateway"
            /\ trace' = Append(trace, CallEvent(idx))
    /\ UNCHANGED <<task_model_mapping, problem_context, current_loaded_model,
                   model_switch_count, recommended_tasks, task_results, idx,
                   start_count, start_model, prev_tasks, analyses, runs, returned>>
    /\ UNCHANGED <<wfVars, gwVars, agVars, coVars>>

\* The delay is over: the switch completes and the gateway request is sent.
CompleteSwitch ==
    /\ pc = "switching"
    /\ LET after == SwitchModel(recommended_tasks[idx].model,
                                current_loaded_model, model_switch_count)
       IN  /\ current_loaded_model' = after.model
           /\ model_switch_count' = after.count
    /\ trace' = trace \o <<[ev |-> "switch_done", task |-> idx], CallEvent(idx)>>
    /\ pc' = "gateway"
    /\ UNCHANGED <<task_model_mapping, problem_context, recommended_tasks,
                   task_results, idx, start_count, start_model, prev_tasks,
                   analyses, runs, returned>>
    /\ UNCHANGED <<wfVars, gwVars, agVars, coVars>>

\* The gateway call returns (generated text or fallback) and the result is appended.
GatewayReturn ==
    /\ pc = "gateway"
    /\ \E response \in GatewayResponses :
         /\ task_results' =
              AppendResult(task_results,
                           ExecuteSpecializedTask(recommended_tasks[idx], response))
         /\ idx' = NextTask(idx, response, Len(recommended_tasks))
         /\ trace' = Append(trace, [ev |-> "return", task |-> idx,
                                    failed |-> Has(response, "error")])
    /\ pc' = "loop"
    /\ UNCHANGED <<task_model_mapping, problem_context, current_loaded_model,
                   model_switch_count, recommended_tasks, start_count,
                   start_model, prev_tasks, analyses, runs, returned>>
    /\ UNCHANGED <<wfVars, gwVars, agVars, coVars>>

\* Step 3: every task is done; the synthesis request is sent.
Synthesize ==
    /\ pc = "loop"
    /\ idx > Len(recommended_tasks)
    /\ trace' = Append(trace, SynthesisCallEvent(task_results))
    /\ pc' = "synthesis"
    /\ UNCHANGED <<task_model_mapping, problem_context, current_loaded_model,
                   model_switch_count, recommended_tasks, task_results, idx,
                   start_count, start_model, prev_tasks, analyses, runs, returned>>
    /\ UNCHANGED <<wfVars, gwVars, agVars, coVars>>

\* The synthesis call returns and execute returns its result dict.
Return ==
    /\ pc = "synthesis"
    /\ \E synthesis_response \in SynthesisResponses :
         returned' = [kind |-> "analysis",
                      task_results |-> task_results,
                      final_solution |->
                         SynthesizeMultiModelResults(task_results, synthesis_response),
                      model_switches |-> model_switch_count,
                      overall_confidence |->
                         CalculateMultiModelConfidence(task_results)]
    /\ pc' = "idle"
    /\ UNCHANGED <<task_model_mapping, problem_context, current_loaded_model,
                   model_switch_count, recommended_tasks, task_results, idx,
                   trace, start_count, start_model, prev_tasks, analyses, runs>>
    /\ UNCHANGED <<wfVars, gwVars, agVars, coVars>>

SchedNext ==
    \/ Execute
    \/ Analyze
    \/ BeginTask
    \/ CompleteSwitch
    \/ GatewayReturn
    \/ Synthesize
    \/ Return

SchedSpec == SchedInit /\ [][SchedNext]_vars

\* ------------------------------------------- the Synthesizer on a given result list

\* Task kinds with the priority the Router gives each.
KindPriority(t) ==
    CASE t = "emergency_response" -> "critical"
      [] t = "sentiment_analysis" -> "medium"
      [] OTHER -> "high"

SynthKinds == {"route_optimization", "sentiment_analysis", "strategic_planning",
               "emergency_response"}

SynthModels == {"google/gemma-3-4b", "qwen/qwen3-4b-thinking-2507"}

\* Confidences of the TaskResults handed over: both ends of [0,1] and 0.7, 0.8, 0.9.
ResultConfidences == {0, 700, 800, 900, 1000}

\* Task lists of up to MaxResults tasks, no task kind twice.
KindLists ==
    {kinds \in UNION {[1..n -> SynthKinds] : n \in 0..MaxResults} :
        \A i, j \in 1..Len(kinds) : i # j => kinds[i] # kinds[j]}

\* The result list of a task list, given the backend and the confidence of each.
ResultList(kinds, models, confidences) ==
    [i \in 1..Len(kinds) |->
        [task |-> kinds[i], model |-> models[i], priority |-> KindPriority(kinds[i]),
         response |-> "generated", confidence |-> confidences[i],
         specialized |-> TRUE]]

\* The for loop of execute_multi_model_analysis has produced a result list and
\* step 3 is about to run.
SynthInit ==
    /\ disruption = EmptyDict
    /\ current_agent = ""
    /\ agent_responses = <<>>
    /\ final_solution = EmptyDict
    /\ escalation_needed = FALSE
    /\ confidence_score = 0
    /\ conversation_history = <<>>
    /\ node = "idle"
    /\ steps = 0
    /\ result = NoResult
    /\ task_model_mapping = DefaultMapping
    /\ problem_context = [urgency |-> "medium"]
    /\ \E kinds \in KindLists :
         \E models \in [1..Len(kinds) -> SynthModels],
            confidences \in [1..Len(kinds) -> ResultConfidences] :
              task_results = ResultList(kinds, models, confidences)
    /\ recommended_tasks =
          [i \in 1..Len(task_results) |->
              [task |-> task_results[i].task, model |-> task_results[i].model,
               priority |-> task_results[i].priority]]
    /\ current_loaded_model =
          IF task_results = <<>> THEN None
          ELSE task_results[Len(task_results)].model
    /\ model_switch_count = 0
    /\ idx = Len(task_results) + 1
    /\ pc = "loop"
    /\ trace = <<>>
    /\ start_count = 0
    /\ start_model = None
    /\ prev_tasks = <<>>
    /\ analyses = 1
    /\ runs = MaxRuns
    /\ returned = NoResult
    /\ GatewayIdle
    /\ AgentIdle
    /\ CoIdle

SynthNext == Synthesize \/ Return

SynthSpec == SynthInit /\ [][SynthNext]_vars

\* ============================================================== Backend Gateway

\* Agent types generate_response_for_agent is called with: the four that have
\* quality indicators, a Scheduler task and the Synthesizer.
AgentTypes == {"grabfood", "grabexpress", "customer_service", "orchestrator",
               "specialist_route_optimization", "master_synthesizer"}

\* len(content) of a generated text: around both length thresholds.
ContentLengths == {0, 49, 50, 51, 100, 101}

ContentVocabulary == {"Restaurant", "delivery", "Sorry", "coordinate", "Maybe",
                      "mighty", "fine"}

\* A generated text: its length and the set of its words.
Contents ==
    [length : ContentLengths,
     words : {w \in SUBSET ContentVocabulary : Cardinality(w) <= MaxContentWords}]

\* quality_indicators.get(agent_type, [])
QualityIndicators(agent_type) ==
    CASE agent_type = "grabfood" ->
            {"restaurant", "delivery", "food", "temperature", "quality"}
      [] agent_type = "grabexpress" ->
            {"package", "urgent", "secure", "delivery", "address"}
      [] agent_type = "customer_service" ->
            {"understand", "sorry", "help", "solution", "resolve"}
      [] agent_type = "orchestrator" ->
            {"coordinate", "assign", "prioritize", "allocate", "manage"}
      [] OTHER -> {}

UncertaintyWords == {"uncertain", "maybe", "possibly", "might", "unclear"}

\* _calculate_confidence
CalculateConfidenceInclusiveLength(content, agent_type) ==
    LET after_length ==
            IF content.length >= 100 THEN 800 + 50
            ELSE IF content.length <= 50 THEN 800 - 100
            ELSE 800
        after_quality ==
            IF AnyIn(QualityIndicators(agent_type), LowerText(content.words))
            THEN after_length + 100 ELSE after_length
        base_confidence ==
            IF AnyIn(UncertaintyWords, LowerText(content.words))
            THEN after_quality - 150 ELSE after_quality
    IN  Max2(100, Min2(950, base_confidence))

CalculateConfidenceHeavyHedging(content, agent_type) ==
    LET after_length ==
            IF content.length > 100 THEN 800 + 50
            ELSE IF content.length < 50 THEN 800 - 100
            ELSE 800
        after_quality ==
            IF AnyIn(QualityIndicators(agent_type), LowerText(content.words))
            THEN after_length + 100 ELSE after_length
        base_confidence ==
            IF AnyIn(UncertaintyWords, LowerText(content.words))
            THEN after_quality - 650 ELSE after_quality
    IN  Max2(100, Min2(950, base_confidence))

CalculateConfidence(content, agent_type) ==
    LET after_length ==
            IF content.length > 100 THEN 800 + 50
            ELSE IF content.length < 50 THEN 800 - 100
            ELSE 800
        after_quality ==
            IF AnyIn(QualityIndicators(agent_type), LowerText(content.words))
            THEN after_length + 100 ELSE after_length
        base_confidence ==
            IF AnyIn(UncertaintyWords, LowerText(content.words))
            THEN after_quality - 150 ELSE after_quality
    IN  Max2(100, Min2(950, base_confidence))

\* A call of generate_response_for_agent is about to be made.
GatewayInit ==
    /\ disruption = EmptyDict
    /\ current_agent = ""
    /\ agent_responses = <<>>
    /\ final_solution = EmptyDict
    /\ escalation_needed = FALSE
    /\ confidence_score = 0
    /\ conversation_history = <<>>
    /\ node = "idle"
    /\ steps = 0
    /\ result = NoResult
    /\ SchedIdle
    /\ gw_agent_type \in AgentTypes
    /\ gw_content \in Contents
    /\ gw_response = NoResult
    /\ AgentIdle
    /\ CoIdle

\* The request succeeds: the generated text is scored and returned.
GenerateResponse ==
    /\ gw_response = NoResult
    /\ \E urgency \in {"medium", "complex"} :
         gw_response' =
            [content |-> gw_content,
             provider |-> "lm_studio",
             active_model |-> RequestModel(DefaultMapping, gw_agent_type, urgency),
             optimal_model |->
                GetOptimalModelForAgent(DefaultMapping, gw_agent_type, urgency),
             agent_type |-> gw_agent_type,
             urgency |-> urgency,
             confidence |-> CalculateConfidence(gw_content, gw_agent_type)]
    /\ UNCHANGED <<gw_agent_type, gw_content>>
    /\ UNCHANGED <<wfVars, schedVars, agVars, coVars>>

\* The request raises: the except branch returns the fallback response.
GenerateFallback ==
    /\ gw_response = NoResult
    /\ gw_response' =
          [content |-> FallbackText(gw_agent_type),
           provider |-> "lm_studio_fallback",
           active_model |-> "fallback",
           agent_type |-> gw_agent_type,
           confidence |-> FallbackConfidence,
           error |-> "error"]
    /\ UNCHANGED <<gw_agent_type, gw_content>>
    /\ UNCHANGED <<wfVars, schedVars, agVars, coVars>>

GatewayNext == GenerateResponse \/ GenerateFallback

GatewaySpec == GatewayInit /\ [][GatewayNext]_vars

\* ============================================================ Specialist agents

\* A task's text field that holds no string (Python None), so that .lower()
\* raises, and a text field the task dict lacks.
NotText == {None}
MissingText == {Missing}

TaskTexts(vocabulary) ==
    {t \in SUBSET vocabulary : Cardinality(t) <= MaxTaskWords}

FoodVocabulary == {"food poisoning", "Temperature", "multiple", "restaurant",
                   "closed"}

ExpressVocabulary == {"EMERGENCY", "time-sensitive", "multiple", "wrong address"}

CustomerVocabulary == {"angry", "Frustrated", "upset", "confused", "unhappy",
                       "late"}

\* The fields of a task dict each specialist reads, with the values task.get
\* yields: a missing affected_orders or package_value is 0, a missing
\* package_type is the empty text, a missing fragile is False.
FoodTasks ==
    [urgency : {"high", "normal"},
     affected_orders : {0, 6, 11},
     severity : {"high", "low"},
     disruption : TaskTexts(FoodVocabulary) \cup {NotText}]

ExpressTasks ==
    [urgency : {"high", "normal"},
     package_value : {0, 10001, 50001},
     package_type : {{}, {"Medical"}},
     fragile : BOOLEAN,
     disruption : TaskTexts(ExpressVocabulary) \cup {NotText}]

CustomerTasks ==
    [customer_issue : TaskTexts(CustomerVocabulary) \cup {MissingText},
     disruption : {{}, {"angry"}, NotText},
     sentiment : {Missing, "angry", "neutral"}]

TasksOf(kind) ==
    CASE kind = "grabfood" -> FoodTasks
      [] kind = "grabexpress" -> ExpressTasks
      [] OTHER -> CustomerTasks

\* sum(factors[...]): the number of signals that fire.
RECURSIVE Sum(_)
Sum(signals) ==
    IF signals = <<>> THEN 0
    ELSE (IF Head(signals) THEN 1 ELSE 0) + Sum(Tail(signals))

\* GrabFoodAgent._determine_urgency: factors["urgent"] and factors["complex"].
FoodUrgentFactors(task) ==
    <<task.urgency = "high",
      task.affected_orders > 10,
      Contains(LowerText(task.disruption), "food poisoning"),
      Contains(LowerText(task.disruption), "temperature"),
      Contains(LowerText(task.disruption), "contamination"),
      Contains(LowerText(task.disruption), "expired")>>

FoodComplexFactors(task) ==
    <<task.affected_orders > 5,
      Contains(LowerText(task.disruption), "multiple"),
      task.severity = "high",
      Contains(LowerText(task.disruption), "restaurant")
        /\ Contains(LowerText(task.disruption), "closed")>>

\* GrabExpressAgent._determine_urgency: factors["urgent"] and factors["complex"].
ExpressUrgentFactors(task) ==
    <<task.urgency = "high",
      task.package_value > 50000,
      Contains(LowerText(task.package_type), "medical"),
      Contains(LowerText(task.disruption), "emergency"),
      Contains(LowerText(task.disruption), "time-sensitive")>>

ExpressComplexFactors(task) ==
    <<task.fragile,
      Contains(LowerText(task.disruption), "multiple"),
      task.package_value > 10000,
      Contains(LowerText(task.disruption), "wrong address")>>

\* The threshold rule both _determine_urgency methods end with.
ClassifyComplexFirst(urgent, complex) ==
    IF Sum(complex) >= 2 THEN "complex"
    ELSE IF Sum(urgent) >= 2 THEN "urgent"
    ELSE "medium"

Classify(urgent, complex) ==
    IF Sum(urgent) >= 2 THEN "urgent"
    ELSE IF Sum(complex) >= 2 THEN "complex"
    ELSE "medium"

\* task.get('customer_issue', task.get('disruption', ''))
CustomerText(task) ==
    IF task.customer_issue # MissingText THEN task.customer_issue
    ELSE task.disruption

AngryWords == {"angry", "furious", "outraged", "unacceptable"}
FrustratedWords == {"frustrated", "annoyed", "disappointed", "upset"}
ConfusedWords == {"confused", "unclear", "don't understand"}
PositiveWords == {"happy", "satisfied", "good", "excellent"}

\* CustomerServiceAgent._analyze_sentiment
AnalyzeSentimentFieldFirst(task) ==
    LET disruption_text == LowerText(CustomerText(task)) IN
    IF task.sentiment # Missing THEN task.sentiment
    ELSE IF AnyIn(AngryWords, disruption_text) THEN "angry"
    ELSE IF AnyIn(FrustratedWords, disruption_text) THEN "frustrated"
    ELSE IF AnyIn(ConfusedWords, disruption_text) THEN "confused"
    ELSE IF AnyIn(PositiveWords, disruption_text) THEN "positive"
    ELSE "neutral"

AnalyzeSentiment(task) ==
    LET disruption_text == LowerText(CustomerText(task)) IN
    IF AnyIn(AngryWords, disruption_text) THEN "angry"
    ELSE IF AnyIn(FrustratedWords, disruption_text) THEN "frustrated"
    ELSE IF AnyIn(ConfusedWords, disruption_text) THEN "confused"
    ELSE IF AnyIn(PositiveWords, disruption_text) THEN "positive"
    ELSE IF task.sentiment # Missing THEN task.sentiment
    ELSE "neutral"

\* The urgency each process_task passes to the gateway.
DetermineUrgency(kind, task) ==
    CASE kind = "grabfood" ->
            Classify(FoodUrgentFactors(task), FoodComplexFactors(task))
      [] kind = "grabexpress" ->
            Classify(ExpressUrgentFactors(task), ExpressComplexFactors(task))
      [] OTHER ->
            IF AnalyzeSentiment(task) \in {"angry", "frustrated"}
            THEN "urgent" ELSE "medium"

\* The text whose .lower() the classifier calls is not a string.
ClassifierRaises(kind, task) ==
    IF kind = "customer_service" THEN CustomerText(task) = NotText
    ELSE task.disruption = NotText

\* The rounding error of the float sum _calculate_confidence returns, in units in
\* the last place above the decimal value: 0.8 - 0.1 and 0.8 + 0.05 - 0.15 are
\* 0.7000000000000001, 0.8 + 0.05 is 0.8500000000000001; every other sum the
\* method can form, and the clamp's own bounds, are the decimal's own float.
RoundingExcess(content, agent_type) ==
    LET quality == AnyIn(QualityIndicators(agent_type), LowerText(content.words))
        hedged == AnyIn(UncertaintyWords, LowerText(content.words))
    IN  IF content.length > 100 /\ ~quality THEN 1
        ELSE IF content.length < 50 /\ ~quality /\ ~hedged THEN 1
        ELSE 0

\* Texts the gateway generates for a specialist: of one word at most, and of a
\* length on either side of each length threshold.
AgentContents ==
    {c \in Contents : Cardinality(c.words) <= 1 /\ c.length \in {49, 50, 101}}

\* Confidences of a response that did not come from _calculate_confidence: the
\* status threshold and a value on either side.
StubConfidences == {600, 700, 750}

\* What generate_response_for_agent can hand to a specialist: a generated text
\* scored by _calculate_confidence, the fallback of its except branch, or, with
\* another gateway object passed to the constructor, a response of any confidence.
ScoredResponses(agent_type, urgency) ==
    {[content |-> c,
      active_model |-> RequestModel(DefaultMapping, agent_type, urgency),
      optimal_model |-> GetOptimalModelForAgent(DefaultMapping, agent_type, urgency),
      confidence |-> CalculateConfidence(c, agent_type),
      excess |-> RoundingExcess(c, agent_type),
      provider |-> "lm_studio"] : c \in AgentContents}

FallbackResponse(agent_type) ==
    [content |-> FallbackText(agent_type),
     active_model |-> "fallback",
     confidence |-> FallbackConfidence,
     excess |-> 0,
     provider |-> "lm_studio_fallback",
     error |-> "error"]

StubResponses(agent_type, urgency) ==
    {[content |-> "stub",
      active_model |-> "stub",
      confidence |-> c,
      excess |-> 0,
      provider |-> "stub"] : c \in StubConfidences}

\* response["confidence"] > 0.7 on the float the response carries.
ExceedsInclusive(response, bound) == response.confidence >= bound

Exceeds(response, bound) ==
    \/ response.confidence > bound
    \/ response.confidence = bound /\ response.excess > 0

\* should_escalate: self.state.confidence < 0.6
AgentShouldEscalate(confidence) == confidence < 600

\* The AgentMessage process_task builds from the gateway's response.
AgentMessageOf(kind, urgency, sentiment, response) ==
    [kind |-> "message",
     agent_id |-> AgentId(kind),
     message_type |-> IF kind = "customer_service" THEN "customer_communication"
                      ELSE "task_completion",
     content |->
        IF kind = "customer_service"
        THEN [customer_message |-> response.content,
              sentiment_analysis |-> sentiment,
              confidence |-> response.confidence,
              model_used |-> response.active_model,
              optimal_model |-> IF Has(response, "optimal_model")
                                THEN response.optimal_model ELSE "unknown",
              escalation_needed |-> response.confidence < 700]
        ELSE [solution |-> response.content,
              confidence |-> response.confidence,
              model_used |-> response.active_model,
              optimal_model |-> IF Has(response, "optimal_model")
                                THEN response.optimal_model ELSE "unknown",
              urgency |-> urgency,
              requires_escalation |-> AgentShouldEscalate(response.confidence)],
     confidence |-> response.confidence,
     excess |-> response.excess]

\* A specialist has been constructed; no call has been made on it.
AgentInit ==
    /\ disruption = EmptyDict
    /\ current_agent = ""
    /\ agent_responses = <<>>
    /\ final_solution = EmptyDict
    /\ escalation_needed = FALSE
    /\ confidence_score = 0
    /\ conversation_history = <<>>
    /\ node = "idle"
    /\ steps = 0
    /\ result = NoResult
    /\ SchedIdle
    /\ GatewayIdle
    /\ ag_kind \in Agents
    /\ ag_task = EmptyDict
    /\ ag_status = "idle"
    /\ ag_confidence = 0
    /\ ag_request = NoResult
    /\ ag_message = NoResult
    /\ ag_pc = "idle"
    /\ ag_calls = 0
    /\ CoIdle

\* process_task up to its await: the status becomes working, the urgency is
\* classified and the request goes to the gateway. A classifier that raises ends
\* the call there.
ProcessTask ==
    /\ ag_pc = "idle"
    /\ ag_calls < MaxCalls
    /\ \E task \in TasksOf(ag_kind) :
         /\ ag_task' = task
         /\ ag_status' = "working"
         /\ ag_calls' = ag_calls + 1
         /\ IF ClassifierRaises(ag_kind, task)
            THEN /\ ag_message' = [kind |-> "raised"]
                 /\ ag_request' = NoResult
                 /\ ag_pc' = "idle"
            ELSE /\ ag_message' = NoResult
                 /\ ag_request' =
                      [kind |-> "request",
                       agent_type |-> ag_kind,
                       urgency |-> DetermineUrgency(ag_kind, task),
                       model |-> RequestModel(DefaultMapping, ag_kind,
                                              DetermineUrgency(ag_kind, task))]
                 /\ ag_pc' = "awaiting"
    /\ UNCHANGED <<ag_kind, ag_confidence>>
    /\ UNCHANGED <<wfVars, schedVars, gwVars, coVars>>

\* The rest of process_task once the gateway's response is there.
Resume(response) ==
    /\ ag_confidence' = response.confidence
    /\ ag_status' = IF Exceeds(response, 700) THEN "completed" ELSE "escalating"
    /\ ag_message' =
          AgentMessageOf(ag_kind, ag_request.urgency,
                         IF ag_kind = "customer_service"
                         THEN AnalyzeSentiment(ag_task) ELSE None,
                         response)
    /\ ag_pc' = "idle"
    /\ UNCHANGED <<ag_kind, ag_task, ag_request, ag_calls>>
    /\ UNCHANGED <<wfVars, schedVars, gwVars, coVars>>

\* The gateway's request succeeds.
GatewayResponds ==
    /\ ag_pc = "awaiting"
    /\ \E response \in ScoredResponses(ag_kind, ag_request.urgency)
                        \cup StubResponses(ag_kind, ag_request.urgency) :
         Resume(response)

\* The gateway's request raises: its except branch returns the fallback.
GatewayFails ==
    /\ ag_pc = "awaiting"
    /\ Resume(FallbackResponse(ag_kind))

AgentNext == ProcessTask \/ GatewayResponds \/ GatewayFails

AgentSpec == AgentInit /\ [][AgentNext]_vars

\* ================================================ execute calls run as coroutines

\* The records the concurrent execute calls are made on.
CoContexts ==
    {ctx \in Contexts :
        Has(ctx, "description") => Cardinality(ctx.description) <= MaxCoWords}

\* One Scheduler has been constructed; no execute call has been made on it.
CoInit ==
    /\ disruption = EmptyDict
    /\ current_agent = ""
    /\ agent_responses = <<>>
    /\ final_solution = EmptyDict
    /\ escalation_needed = FALSE
    /\ confidence_score = 0
    /\ conversation_history = <<>>
    /\ node = "idle"
    /\ steps = 0
    /\ result = NoResult
    /\ task_model_mapping \in {DefaultMapping, SharedMapping({})}
    /\ problem_context = EmptyDict
    /\ current_loaded_model = None
    /\ model_switch_count = 0
    /\ recommended_tasks = <<>>
    /\ task_results = <<>>
    /\ idx = 0
    /\ pc = "idle"
    /\ trace = <<>>
    /\ start_count = 0
    /\ start_model = None
    /\ prev_tasks = <<>>
    /\ analyses = 0
    /\ runs = 0
    /\ returned = NoResult
    /\ GatewayIdle
    /\ AgentIdle
    /\ CoIdle

CoFrame ==
    /\ UNCHANGED <<task_model_mapping, problem_context, recommended_tasks,
                   task_results, idx, pc, trace, start_count, start_model,
                   prev_tasks, analyses, runs, returned>>
    /\ UNCHANGED <<wfVars, gwVars, agVars>>

\* execute_multi_model_analysis is called: step 1, the Router, has no await.
CoExecute(c) ==
    /\ co_pc[c] = "idle"
    /\ \E ctx \in CoContexts :
         co_tasks' = [co_tasks EXCEPT ![c] =
                         AnalyzeProblemRequirements(ctx, task_model_mapping)]
    /\ co_idx' = [co_idx EXCEPT ![c] = 1]
    /\ co_pc' = [co_pc EXCEPT ![c] = "loop"]
    /\ UNCHANGED <<current_loaded_model, model_switch_count, co_changes>>
    /\ CoFrame

\* One task, up to the first await: both tests of current_loaded_model (the loop's
\* and _switch_model's) run without suspension; then either the sleep starts or
\* the gateway request is sent.
CoBeginTask(c) ==
    /\ co_pc[c] = "loop"
    /\ co_idx[c] <= Len(co_tasks[c])
    /\ co_pc' = [co_pc EXCEPT ![c] =
                    IF NeedsSwitch(co_tasks[c][co_idx[c]].model, current_loaded_model)
                    THEN "switching" ELSE "gateway"]
    /\ UNCHANGED <<current_loaded_model, model_switch_count, co_idx, co_tasks,
                   co_changes>>
    /\ CoFrame

\* The sleep is over: the two assignments of _switch_model run without a new
\* test, and the gateway request is sent.
CoCompleteSwitch(c) ==
    /\ co_pc[c] = "switching"
    /\ current_loaded_model' = co_tasks[c][co_idx[c]].model
    /\ model_switch_count' = model_switch_count + 1
    /\ co_changes' = IF current_loaded_model' # current_loaded_model
                     THEN co_changes + 1 ELSE co_changes
    /\ co_pc' = [co_pc EXCEPT ![c] = "gateway"]
    /\ UNCHANGED <<co_idx, co_tasks>>
    /\ CoFrame

\* The gateway call of the task returns; the loop moves on.
CoGatewayReturn(c) ==
    /\ co_pc[c] = "gateway"
    /\ co_idx' = [co_idx EXCEPT ![c] = co_idx[c] + 1]
    /\ co_pc' = [co_pc EXCEPT ![c] = "loop"]
    /\ UNCHANGED <<current_loaded_model, model_switch_count, co_tasks, co_changes>>
    /\ CoFrame

\* Step 3: the synthesis request is sent.
CoSynthesize(c) ==
    /\ co_pc[c] = "loop"
    /\ co_idx[c] > Len(co_tasks[c])
    /\ co_pc' = [co_pc EXCEPT ![c] = "synthesis"]
    /\ UNCHANGED <<current_loaded_model, model_switch_count, co_idx, co_tasks,
                   co_changes>>
    /\ CoFrame

\* The synthesis call returns and so does execute.
CoReturn(c) ==
    /\ co_pc[c] = "synthesis"
    /\ co_pc' = [co_pc EXCEPT ![c] = "returned"]
    /\ UNCHANGED <<current_loaded_model, model_switch_count, co_idx, co_tasks,
                   co_changes>>
    /\ CoFrame

CoNext ==
    \E c \in Coroutines :
        \/ CoExecute(c)
        \/ CoBeginTask(c)
        \/ CoCompleteSwitch(c)
        \/ CoGatewayReturn(c)
        \/ CoSynthesize(c)
        \/ CoReturn(c)

CoSpec == CoInit /\ [][CoNext]_vars

\* ------------------------------------------------------------ workflow properties

LatestConfidence == agent_responses[Len(agent_responses)].response.confidence

ValidateStep == node = "validate_solution" /\ node' # node

Ended == result.kind \in {"final_state", "error_state"}

\* C1: after every validate step, with c the confidence of the latest AgentResult,
\* the next state is escalate if c < 0.6, retry-execute (execute_specialist_task
\* again) if 0.6 <= c < 0.8, and communicate if c >= 0.8; validate has no other
\* successor.
C1_ValidateSuccessor ==
    [][ValidateStep =>
         /\ agent_responses # <<>>
         /\ LatestConfidence < 600 => node' = "escalate_to_human"
         /\ 600 <= LatestConfidence /\ LatestConfidence < 800
              => node' = "execute_specialist_task"
         /\ LatestConfidence >= 800 => node' = "customer_communication"
         /\ node' \in {"escalate_to_human", "execute_specialist_task",
                       "customer_communication"}]_vars

\* C1 witness: a retry is pending after a 0.75 and, before it, a 0.7.
C1_Witness ==
    /\ node = "execute_specialist_task"
    /\ Len(agent_responses) = 2
    /\ agent_responses[1].response.confidence = 700
    /\ LatestConfidence = 750

\* C2: every run of process_disruption terminates, whatever the gateway returns:
\* the graph never takes more steps than its recursion limit, and a started run
\* ends with the final state of escalate or finalize or with the error state.
C2_Terminates ==
    /\ [](steps <= RecursionLimit)
    /\ (node # "idle") ~> Ended

\* C2 witness: a specialist that stayed in the retry band on every attempt, ended
\* by the recursion limit.
C2_Witness ==
    /\ result.kind = "error_state"
    /\ steps = RecursionLimit
    /\ Len(agent_responses) >= 24
    /\ \A i \in 1..Len(agent_responses) :
          InRetryBand(agent_responses[i].response.confidence)

\* C3: process_disruption never propagates an exception: what it returns is the
\* graph's final state or the error state; the error state has escalation_needed
\* true, confidence_score 0.1 and a final_solution with a solution text; every
\* returned result has a confidence score and a solution or an escalation context.
C3_AlwaysWellFormed ==
    result # NoResult =>
        /\ Ended
        /\ result.kind = "error_state" =>
              /\ result.escalation_needed = TRUE
              /\ result.confidence_score = 100
              /\ Has(result.final_solution, "solution")
        /\ Has(result, "confidence_score")
        /\ result.confidence_score \in 0..1000
        /\ \/ Has(result.final_solution, "solution")
           \/ Has(result.final_solution, "escalation_context")

\* C3 witness: a disruption record without a service_type made
\* execute_specialist_task raise, and the caller got the error state.
C3_Witness ==
    /\ result.kind = "error_state"
    /\ node = "END"
    /\ disruption.service_type = Missing
    /\ steps < RecursionLimit

\* C10 as stated: a latest confidence of exactly 0.6 leads to escalate and one of
\* exactly 0.8 leads to retry-execute.
C10_Original ==
    [][ValidateStep =>
         /\ LatestConfidence = 600 => node' = "escalate_to_human"
         /\ LatestConfidence = 800 => node' = "execute_specialist_task"]_vars

\* C10 amended: both thresholds are inclusive lower bounds of the higher branch: a
\* latest confidence of exactly 0.6 leads to retry-execute and one of exactly 0.8
\* leads to communicate.
C10_BoundaryInclusive ==
    [][ValidateStep =>
         /\ LatestConfidence = 600 => node' = "execute_specialist_task"
         /\ LatestConfidence = 800 => node' = "customer_communication"]_vars

\* C10 witness: a 0.6 was retried and the retry's 0.8 went on to communicate.
C10_Witness ==
    /\ node = "customer_communication"
    /\ Len(agent_responses) = 2
    /\ agent_responses[1].response.confidence = 600
    /\ LatestConfidence = 800

CommunicateStep == node = "customer_communication" /\ steps' = steps + 1

FinalizeStep == node = "finalize_solution" /\ node' # node

\* C11: once the communicate step has run, the workflow goes to finalize and ends
\* there, whatever the customer-service call returned (a failure, or a confidence
\* below 0.6): the run returns its final state with escalation_needed false and a
\* customer_communication entry in final_solution.
C11_CommunicateFinalizes ==
    /\ [][CommunicateStep =>
            /\ node' = "finalize_solution"
            /\ Has(final_solution', "customer_communication")
            /\ escalation_needed' = FALSE]_vars
    /\ [][FinalizeStep =>
            /\ node' = "END"
            /\ result'.kind = "final_state"
            /\ result'.escalation_needed = FALSE
            /\ Has(result'.final_solution, "customer_communication")
            /\ Has(result'.final_solution, "solution")]_vars
    /\ (node = "finalize_solution") ~> (node = "END" /\ result.kind = "final_state")

\* C11 witness: a run was finalized although its customer-service call failed.
C11_Witness ==
    /\ node = "END"
    /\ result.kind = "final_state"
    /\ result.escalation_needed = FALSE
    /\ result.final_solution.customer_communication.message_type = "error"
    /\ result.final_solution.customer_communication.confidence
          < HUMAN_ESCALATION_THRESHOLD

EscalateStep == node = "escalate_to_human" /\ steps' = steps + 1

Escalated == result.kind = "final_state" /\ result.escalation_needed

\* C12: escalate is terminal and carries the full context. The escalate step ends
\* the run and nothing runs after the end; the returned state has escalation_needed
\* true and an escalation_context holding the disruption, every accumulated
\* AgentResult in order, one confidence per AgentResult in the same order, the
\* fixed reason string and the solution text validate stored last.
C12_EscalateTerminal ==
    /\ [][EscalateStep => node' = "END" /\ Escalated']_vars
    /\ [][node = "END" => FALSE]_vars
    /\ [](Escalated =>
            /\ node = "END"
            /\ Has(result.final_solution, "escalation_context")
            /\ ~Has(result.final_solution, "customer_communication")
            /\ LET ctx == result.final_solution.escalation_context IN
                 /\ ctx.disruption = result.disruption
                 /\ ctx.disruption = disruption
                 /\ ctx.attempted_solutions = agent_responses
                 /\ result.agent_responses = agent_responses
                 /\ Len(ctx.confidence_scores) = Len(agent_responses)
                 /\ \A i \in 1..Len(agent_responses) :
                       ctx.confidence_scores[i] = agent_responses[i].response.confidence
                 /\ ctx.escalation_reason = "Low confidence score or complex scenario"
                 /\ ctx.recommended_actions = result.final_solution.solution
                 /\ ctx.recommended_actions =
                       ExtractSolution(agent_responses[Len(agent_responses)]
                                          .response.content))

\* C12 witness: a run escalated after a retry, with two different confidences in
\* its context.
C12_Witness ==
    /\ Escalated
    /\ Len(agent_responses) = 2
    /\ result.final_solution.escalation_context.confidence_scores = <<700, 550>>

\* C13: within one run the specialist is executed at most MAX_ITERATIONS (10)
\* times, however often validate selects retry-execute. Every execution appends
\* one entry to agent_responses. The workflow never reads MAX_ITERATIONS: only the
\* recursion limit ends a run that stays in the retry band.
C13_Original == Len(agent_responses) <= MAX_ITERATIONS

\* A node of the graph ran to its end.
GraphStep == steps' = steps + 1

\* The log keeps every entry it had, in place.
AppendOnly ==
    /\ Len(conversation_history') >= Len(conversation_history)
    /\ \A i \in 1..Len(conversation_history) :
          conversation_history'[i] = conversation_history[i]

\* C14: every transition of the state machine (analyze, route, execute, validate,
\* communicate, escalate, finalize) appends exactly one audit entry to the
\* conversation log, so the log is as long as the number of steps taken, and no
\* step removes or rewrites an earlier entry. Only analyze_disruption appends.
C14_Original ==
    [][GraphStep =>
         /\ Len(conversation_history') = Len(conversation_history) + 1
         /\ Len(conversation_history') = steps'
         /\ AppendOnly]_vars

RouteStep == node = "route_to_specialist" /\ GraphStep

\* The analysis text names food or a restaurant, in any letter case.
FoodSignal == disruption.analysis \cap {"GrabFood", "restaurant"} # {}

\* The analysis text names a package or express, in any letter case.
ExpressSignal == disruption.analysis \cap {"Package", "GrabExpress"} # {}

\* C15: route selects exactly one specialist, always a key of the agent map: the
\* food specialist if the analysis text holds a food/restaurant keyword or the
\* service type is grabfood; otherwise the express specialist if the text holds a
\* package/express keyword or the service type is grabexpress; otherwise
\* customer-service. Food wins when both match, and execute never fails to look
\* up the selected specialist: it raises only for a record that lacks a field.
C15_RouteSelects ==
    /\ [][RouteStep =>
            /\ current_agent' \in Agents
            /\ current_agent' = "grabfood"
                  <=> (FoodSignal \/ disruption.service_type = "grabfood")
            /\ current_agent' = "grabexpress"
                  <=> /\ ~(FoodSignal \/ disruption.service_type = "grabfood")
                      /\ (ExpressSignal \/ disruption.service_type = "grabexpress")]_vars
    /\ [](node \in {"execute_specialist_task", "validate_solution"}
            => current_agent \in Agents)
    /\ [][node = "execute_specialist_task" /\ node' = "END" =>
            \/ steps >= RecursionLimit
            \/ disruption.description = Missing
            \/ disruption.service_type = Missing]_vars
    /\ [](\A i \in 1..Len(agent_responses) : agent_responses[i].agent = current_agent)

\* C15 witness: the analysis named both GrabFood and a package for a grabexpress
\* disruption, and the food specialist was executed.
C15_Witness ==
    /\ Has(disruption, "analysis")
    /\ disruption.analysis = {"GrabFood", "Package"}
    /\ disruption.service_type = "grabexpress"
    /\ current_agent = "grabfood"
    /\ Len(agent_responses) = 1
    /\ agent_responses[1].response.agent_id = "grabfood_specialist"

\* ----------------------------------------------------------- Scheduler properties

Backends(tasks) == [i \in 1..Len(tasks) |-> tasks[i].model]

\* Adjacent pairs of a sequence whose members differ.
DifferingAdjacent(s) == Cardinality({i \in 1..(Len(s) - 1) : s[i] # s[i + 1]})

\* The Router has run on problem_context in the current execute call.
RouterRan == pc \in {"loop", "switching", "gateway", "synthesis"}
             \/ (pc = "idle" /\ runs > 0)

ExecuteReturned == pc = "idle" /\ returned.kind = "analysis"

FreshStart == start_model = None /\ start_count = 0

Events(kind, i) == {p \in 1..Len(trace) : trace[p].ev = kind /\ trace[p].task = i}

FailedTasks == {i \in 1..Len(recommended_tasks) :
                  \E p \in Events("return", i) : trace[p].failed}

\* C4 as stated: switch_count after a run equals the number of adjacent Task pairs
\* in execution order whose backends differ.
C4_Original ==
    ExecuteReturned =>
        model_switch_count = DifferingAdjacent(Backends(recommended_tasks))

\* C4 amended: switch_count after a run equals switch_count before it plus the
\* number of differing adjacent pairs in the sequence made of the backend current
\* when the run started followed by the tasks' backends in execution order. On a
\* fresh Scheduler and a non-empty list that is the differing adjacent Task pairs
\* plus one: loading the first task's backend counts as a switch.
C4_SwitchCount ==
    ExecuteReturned =>
        /\ model_switch_count =
             start_count
             + DifferingAdjacent(<<start_model>> \o Backends(recommended_tasks))
        /\ returned.model_switches = model_switch_count
        /\ FreshStart /\ recommended_tasks # <<>> =>
             model_switch_count = DifferingAdjacent(Backends(recommended_tasks)) + 1

\* C4 witness: a reused Scheduler returned from a run that began with a backend
\* loaded, switched, and also met two tasks in a row on one backend.
C4_Witness ==
    /\ ExecuteReturned
    /\ start_model # None
    /\ model_switch_count > start_count
    /\ \E i \in 1..(Len(recommended_tasks) - 1) :
          recommended_tasks[i].model = recommended_tasks[i + 1].model

IsAABA(s) == Len(s) = 4 /\ s[1] = s[2] /\ s[3] # s[1] /\ s[4] = s[1]

\* C5: on a freshly constructed Scheduler, a task list whose backends are
\* [A, A, B, A] with A # B ends with switch_count 3.
C5_AABA ==
    ExecuteReturned /\ FreshStart /\ IsAABA(Backends(recommended_tasks)) =>
        model_switch_count = 3

\* C5 witness: a fresh Scheduler returned from a run over backends [A, A, B, A].
C5_Witness ==
    ExecuteReturned /\ FreshStart /\ IsAABA(Backends(recommended_tasks))

\* C6: within one execute call tasks are processed strictly one after the other in
\* Router order: a task's switch is complete before its gateway call is sent, each
\* task gets exactly one gateway call, the call has returned before the next task's
\* switch or call begins, and the result list has the length and order of the task
\* list.
C6_Sequential ==
    /\ \A p \in 1..Len(trace) :
         LET e == trace[p]
             last == p = Len(trace)
         IN  /\ e.ev = "switch_start" =>
                  IF last THEN pc = "switching" /\ idx = e.task
                  ELSE trace[p + 1] = [ev |-> "switch_done", task |-> e.task]
             /\ e.ev = "switch_done" =>
                  ~last /\ trace[p + 1].ev = "call" /\ trace[p + 1].task = e.task
             /\ e.ev = "call" =>
                  /\ p = 1 \/ trace[p - 1].ev \in {"return", "switch_done"}
                  /\ IF last THEN pc = "gateway" /\ idx = e.task
                     ELSE trace[p + 1].ev = "return" /\ trace[p + 1].task = e.task
             /\ e.ev = "return" =>
                  \/ last /\ pc = "loop"
                  \/ ~last /\ trace[p + 1].ev \in {"switch_start", "call"}
                           /\ trace[p + 1].task = e.task + 1
                  \/ ~last /\ trace[p + 1].ev = "synthesis_call"
                           /\ e.task = Len(recommended_tasks)
             /\ p = 1 /\ e.ev # "synthesis_call" => e.task = 1
    /\ RouterRan =>
         /\ \A i \in 1..Len(recommended_tasks) :
              Cardinality(Events("call", i)) =
                 IF i < idx \/ (i = idx /\ pc = "gateway") THEN 1 ELSE 0
         /\ Len(task_results) <= Len(recommended_tasks)
         /\ \A i \in 1..Len(task_results) :
              /\ task_results[i].task = recommended_tasks[i].task
              /\ task_results[i].model = recommended_tasks[i].model
              /\ task_results[i].priority = recommended_tasks[i].priority
    /\ ExecuteReturned =>
         /\ Len(returned.task_results) = Len(recommended_tasks)
         /\ returned.task_results = task_results

\* C6 witness: a run over three or more tasks returned, one task having needed a
\* switch and another not.
C6_Witness ==
    /\ ExecuteReturned
    /\ Len(recommended_tasks) >= 3
    /\ \E i, j \in 1..Len(recommended_tasks) :
          Events("switch_done", i) # {} /\ Events("switch_done", j) = {}

\* The part of C7 the scheduler satisfies: a failed gateway call does not abort the
\* run. Its TaskResult carries the gateway's fixed fallback text and the fallback
\* confidence 0.2, and every remaining task is still switched to and executed in
\* order.
FailureDoesNotAbort ==
    /\ \A i \in FailedTasks : i <= Len(task_results) =>
          /\ task_results[i].response = "System temporarily unavailable."
          /\ task_results[i].confidence = FallbackConfidence
          /\ task_results[i].task = recommended_tasks[i].task
    /\ ExecuteReturned =>
          /\ Len(task_results) = Len(recommended_tasks)
          /\ \A i \in 1..Len(recommended_tasks) :
                /\ Events("call", i) # {}
                /\ Events("return", i) # {}
                /\ i > 1 /\ recommended_tasks[i].model # recommended_tasks[i - 1].model
                     => Events("switch_done", i) # {}
    /\ pc = "gateway" => current_loaded_model = recommended_tasks[idx].model

\* C7: when the gateway call of one task fails the run is not aborted: that task
\* yields a TaskResult that carries an error marker, and every remaining task is
\* still switched to and executed in order. The scheduler copies only the text and
\* the confidence of the gateway's response, so the error marker is lost.
C7_Original ==
    /\ FailureDoesNotAbort
    /\ \A i \in FailedTasks : i <= Len(task_results) => Has(task_results[i], "error")

\* --------------------------------------------------------- Synthesizer properties

RECURSIVE SumConfidence(_)
SumConfidence(results) ==
    IF results = <<>> THEN 0
    ELSE results[1].confidence + SumConfidence(Tail(results))

Tier(results, priority) == SelectSeq(results, LAMBDA r : r.priority = priority)

\* The tier-weighted mean W of a result list as the fraction MeanNum / MeanDen
\* (thousandths over tenths of weight), and the aggregate min(0.95, W + bonus) as
\* AggregateNum / MeanDen.
MeanNum(results) ==
    10 * SumConfidence(Tier(results, "critical"))
    + 8 * SumConfidence(Tier(results, "high"))
    + 6 * SumConfidence(Tier(results, "medium"))

MeanDen(results) ==
    10 * Len(Tier(results, "critical")) + 8 * Len(Tier(results, "high"))
    + 6 * Len(Tier(results, "medium"))

BackendsUsed(results) == {results[i].model : i \in 1..Len(results)}

AggregateNum(results) ==
    LET d == Cardinality(BackendsUsed(results))
        bonus == IF 30 * d < 150 THEN 30 * d ELSE 150
        sum == MeanNum(results) + bonus * MeanDen(results)
    IN  IF sum < 950 * MeanDen(results) THEN sum ELSE 950 * MeanDen(results)

\* C16: for every non-empty list of TaskResults with confidences in [0,1] the
\* aggregated confidence equals min(0.95, W + min(0.15, 0.03 * d)), W being the
\* mean of the confidences weighted by tier (critical 1.0, high 0.8, medium 0.6)
\* and d the number of distinct backends used; it lies in [0, 0.95].
C16_AggregatedConfidence ==
    returned # NoResult /\ task_results # <<>> =>
        LET c == returned.overall_confidence IN
        /\ c.den > 0
        /\ MeanDen(task_results) > 0
        /\ c.num * MeanDen(task_results) = AggregateNum(task_results) * c.den
        /\ 0 <= c.num
        /\ c.num <= 950 * c.den

\* C16 witness: a list of one critical, one high and one medium result from two
\* backends was aggregated to a value below the cap, and another to the cap.
C16_Witness ==
    /\ returned # NoResult
    /\ Len(task_results) = 3
    /\ \A p \in {"critical", "high", "medium"} : Len(Tier(task_results, p)) = 1
    /\ Cardinality(BackendsUsed(task_results)) = 2
    /\ Tier(task_results, "critical")[1].confidence = 1000
    /\ Tier(task_results, "medium")[1].confidence = 0
    /\ returned.overall_confidence.num > 0
    /\ returned.overall_confidence.num < 950 * returned.overall_confidence.den

\* The example of C17: (critical, 0.9), (high, 0.8), (medium, 0.7) from two
\* distinct backends.
ExampleResults ==
    /\ Len(task_results) = 3
    /\ \A p \in {"critical", "high", "medium"} : Len(Tier(task_results, p)) = 1
    /\ Tier(task_results, "critical")[1].confidence = 900
    /\ Tier(task_results, "high")[1].confidence = 800
    /\ Tier(task_results, "medium")[1].confidence = 700
    /\ Cardinality(BackendsUsed(task_results)) = 2

\* C17: the synthesis_confidence field of the unified plan is the tier-weighted
\* aggregate: for the example results it equals
\* min(0.95, weighted_mean + min(0.15, 0.06)), whatever confidence the final
\* gateway call reported. The field holds the confidence of the final gateway
\* call; the aggregate is returned as overall_confidence.
C17_Original ==
    returned # NoResult /\ ExampleResults =>
        returned.final_solution.synthesis_confidence * MeanDen(task_results)
            = AggregateNum(task_results)

SynthesisCalls == {p \in 1..Len(trace) : trace[p].ev = "synthesis_call"}

\* The model the model manager designates for complex reasoning.
MostCapableModel == GetModelByUrgency("complex")

\* C18: the Synthesizer's final gateway call is always served by the most capable
\* backend, whichever backend the Scheduler made current last and whichever the
\* gateway has active. The gateway works out that model as optimal_model, but the
\* request it sends names its own current_active_model.
C18_Original ==
    \A p \in SynthesisCalls : trace[p].model = MostCapableModel

\* Position of a priority in the order critical, high, medium.
PriorityRank(priority) ==
    CHOOSE i \in 1..3 : Priorities[i] = priority

\* Indices of the results a section lists, by their task kind.
SectionIndices(section) ==
    [k \in 1..Len(section.entries) |->
        CHOOSE i \in 1..Len(task_results) :
            task_results[i].task = section.entries[k].task]

\* C19: the Synthesizer builds one section per non-empty priority bucket, in the
\* order critical, high, medium; every TaskResult is listed in exactly one
\* section, under its own priority and with its backend, and results inside a
\* section keep task order. It then issues exactly one final gateway call, and
\* only after every per-task call of the run has returned.
C19_SectionsThenOneCall ==
    /\ Cardinality(SynthesisCalls) <= 1
    /\ pc = "synthesis" \/ ExecuteReturned => Cardinality(SynthesisCalls) = 1
    /\ \A p \in SynthesisCalls :
          LET sections == trace[p].sections IN
          /\ p = Len(trace)
          /\ Len(task_results) = Len(recommended_tasks)
          /\ \A i \in 1..Len(recommended_tasks) :
                /\ Cardinality(Events("call", i)) = 1
                /\ Cardinality(Events("return", i)) = 1
                /\ \A q \in Events("return", i) : q < p
          /\ \A k \in 1..Len(sections) : sections[k].entries # <<>>
          /\ \A k, l \in 1..Len(sections) :
                k < l => PriorityRank(sections[k].priority)
                            < PriorityRank(sections[l].priority)
          /\ {sections[k].priority : k \in 1..Len(sections)}
                = {task_results[i].priority : i \in 1..Len(task_results)}
          /\ \A i \in 1..Len(task_results) :
                Cardinality({<<k, e>> \in (1..Len(sections)) \X (1..Len(task_results)) :
                                /\ e <= Len(sections[k].entries)
                                /\ sections[k].entries[e].task = task_results[i].task})
                   = 1
          /\ \A k \in 1..Len(sections) :
                /\ \A e \in 1..Len(sections[k].entries) :
                      LET i == SectionIndices(sections[k])[e] IN
                      /\ task_results[i].priority = sections[k].priority
                      /\ task_results[i].model = sections[k].entries[e].model
                /\ \A e, f \in 1..Len(sections[k].entries) :
                      e < f => SectionIndices(sections[k])[e]
                                 < SectionIndices(sections[k])[f]

\* C19 witness: a run of five tasks returned; its synthesis call listed one
\* critical result, three high ones in task order and one medium one that the
\* Router had placed between them.
C19_Witness ==
    /\ ExecuteReturned
    /\ Len(task_results) = 5
    /\ \E p \in SynthesisCalls :
          /\ Len(trace[p].sections) = 3
          /\ Len(trace[p].sections[2].entries) = 3
          /\ trace[p].sections[1].entries[1].task = "emergency_response"
          /\ trace[p].sections[2].entries[3].task = "strategic_planning"

\* ------------------------------------------------------------ Gateway properties

Scored == gw_response # NoResult /\ gw_response.provider = "lm_studio"

\* The words of the scored text that hold a quality keyword of the agent type.
QualityWords ==
    CASE gw_agent_type = "grabfood" -> {"Restaurant", "delivery"}
      [] gw_agent_type = "grabexpress" -> {"delivery"}
      [] gw_agent_type = "customer_service" -> {"Sorry"}
      [] gw_agent_type = "orchestrator" -> {"coordinate"}
      [] OTHER -> {}

\* The words of the scored text that hold a hedging keyword.
HedgingWords == {"Maybe", "mighty"}

LengthTerm ==
    IF gw_content.length > 100 THEN 50
    ELSE IF gw_content.length < 50 THEN 0 - 100
    ELSE 0

QualityTerm == IF gw_content.words \cap QualityWords # {} THEN 100 ELSE 0

HedgingTerm == IF gw_content.words \cap HedgingWords # {} THEN 150 ELSE 0

Clamp(x, lo, hi) == IF x < lo THEN lo ELSE IF x > hi THEN hi ELSE x

\* C20: for every generated text and agent type the confidence score equals
\* clamp(0.8 + L + Q - H, 0.1, 0.95): L is +0.05 for a text longer than 100,
\* -0.1 for one shorter than 50 and 0 for lengths 50..100; Q is 0.1 if a quality
\* keyword of the agent type is present; H is 0.15 if a hedging keyword is
\* present. The score lies in [0.1, 0.95].
C20_SpecialistConfidence ==
    Scored =>
        /\ gw_response.confidence
              = Clamp(800 + LengthTerm + QualityTerm - HedgingTerm, 100, 950)
        /\ gw_response.confidence >= 100
        /\ gw_response.confidence <= 950
        /\ gw_response.content = gw_content

\* C20 witness: a text of exactly 100 characters holding "Restaurant" and "Maybe"
\* was scored 0.75 for the food specialist.
C20_Witness ==
    /\ Scored
    /\ gw_agent_type = "grabfood"
    /\ gw_content.length = 100
    /\ gw_content.words = {"Restaurant", "Maybe"}
    /\ gw_response.confidence = 750

\* ------------------------------------------------------------- Router properties

Text(ctx) == IF "description" \in DOMAIN ctx THEN ctx.description ELSE {}

UrgencyOf(ctx) == IF "urgency" \in DOMAIN ctx THEN ctx.urgency ELSE "medium"

\* A signal group fires when a word of the description, lower-cased, holds one of
\* the group's keywords.
Fires(keywords, ctx) ==
    \E w \in Text(ctx) : KeywordsIn(Lower(w)) \cap keywords # {}

RoutingSignal(ctx) == Fires({"traffic", "route", "location", "delivery"}, ctx)
CommunicationSignal(ctx) == Fires({"customer", "notification", "communication"}, ctx)
SentimentSignal(ctx) == Fires({"angry", "frustrated", "complaint"}, ctx)

SignalCount(ctx) ==
    (IF RoutingSignal(ctx) THEN 1 ELSE 0)
    + (IF CommunicationSignal(ctx) THEN 1 ELSE 0)
    + (IF SentimentSignal(ctx) THEN 1 ELSE 0)

\* The kinds the rules of the Router call for, as a set.
KindsCalledFor(ctx) ==
    {k \in TaskTypes :
        \/ k = "route_optimization" /\ RoutingSignal(ctx)
        \/ k = "customer_communication" /\ CommunicationSignal(ctx)
        \/ k = "sentiment_analysis" /\ SentimentSignal(ctx)
        \/ k = "strategic_planning"
             /\ (SignalCount(ctx) > 1 \/ UrgencyOf(ctx) \in {"high", "complex"})
        \/ k = "emergency_response"
             /\ (UrgencyOf(ctx) = "high" \/ Fires({"emergency"}, ctx))}

RuleOrder == <<"route_optimization", "customer_communication", "sentiment_analysis",
               "strategic_planning", "emergency_response">>

RulePriority == <<"high", "high", "medium", "high", "critical">>

Position(k) == CHOOSE i \in 1..5 : RuleOrder[i] = k

\* C8: the Router's task list holds exactly the kinds its rules call for, each once,
\* in rule order, with the rule's priority; with all three signal groups firing and
\* urgency high, all five tasks are emitted in that order.
C8_RouterRules ==
    RouterRan =>
        /\ {recommended_tasks[i].task : i \in 1..Len(recommended_tasks)}
             = KindsCalledFor(problem_context)
        /\ Len(recommended_tasks) = Cardinality(KindsCalledFor(problem_context))
        /\ \A i \in 1..Len(recommended_tasks) :
              /\ recommended_tasks[i].task \in TaskTypes
              /\ recommended_tasks[i].priority =
                    RulePriority[Position(recommended_tasks[i].task)]
        /\ \A i, j \in 1..Len(recommended_tasks) :
              i < j => Position(recommended_tasks[i].task)
                         < Position(recommended_tasks[j].task)
        /\ SignalCount(problem_context) = 3 /\ UrgencyOf(problem_context) = "high" =>
              [i \in 1..Len(recommended_tasks) |-> recommended_tasks[i].task]
                 = RuleOrder

\* C8 witness: the Router ran on a record with all three signal groups firing and
\* urgency high, one of them through a capitalised word.
C8_Witness ==
    /\ pc = "loop"
    /\ idx = 1
    /\ SignalCount(problem_context) = 3
    /\ UrgencyOf(problem_context) = "high"
    /\ "Traffic" \in Text(problem_context)
    /\ Len(recommended_tasks) = 5

MessageReturned == ag_pc = "idle" /\ ag_message.kind = "message"

\* The float the returned message carries is greater than 0.7.
AboveSeventy ==
    \/ ag_message.confidence > 700
    \/ ag_message.confidence = 700 /\ ag_message.excess > 0

\* C21: whenever process_task has returned, the agent's status is completed if
\* the result's confidence is greater than 0.7 and escalating otherwise, so a
\* confidence of exactly 0.7 gives escalating; the status is neither working nor
\* idle, also when the result is the gateway's fallback.
C21_StatusAfterReturn ==
    MessageReturned =>
        /\ ag_status = (IF AboveSeventy THEN "completed" ELSE "escalating")
        /\ ag_status \notin {"working", "idle"}
        /\ ag_confidence = ag_message.confidence
        /\ (ag_message.confidence = 700 /\ ag_message.excess = 0)
              => ag_status = "escalating"
        /\ ag_message.content.model_used = "fallback" => ag_status = "escalating"

\* A call returned a result of exactly 0.7 and the agent is escalating.
C21_Witness ==
    /\ MessageReturned
    /\ ag_message.confidence = 700
    /\ ag_message.excess = 0
    /\ ag_status = "escalating"

\* A request has gone to the gateway for the task the agent holds.
RequestMade == ag_request.kind = "request"

\* The anger and frustration keywords the customer's text contains.
CustomerUrgentSignals ==
    {w \in AngryWords \cup FrustratedWords :
        Contains(LowerText(CustomerText(ag_task)), w)}

\* How many of the agent's urgent signals fire on the task.
UrgentSignalCount ==
    CASE ag_kind = "grabfood" -> Sum(FoodUrgentFactors(ag_task))
      [] ag_kind = "grabexpress" -> Sum(ExpressUrgentFactors(ag_task))
      [] OTHER -> Cardinality(CustomerUrgentSignals)

\* The customer's text holds no keyword of any sentiment list.
NoSentimentKeyword ==
    ~AnyIn(AngryWords \cup FrustratedWords \cup ConfusedWords \cup PositiveWords,
           LowerText(CustomerText(ag_task)))

ExecuteStep == node = "execute_specialist_task" /\ node' # node

\* The response a step has just appended to agent_responses.
Latest == agent_responses[Len(agent_responses)].response

\* The text of a response_dict, whichever key of its content holds it.
TextOf(response) ==
    IF Has(response.content, "solution") THEN response.content.solution[1]
    ELSE response.content.customer_message[1]

\* The response's content names the gateway's fallback as the model used.
FromGatewayFailure(response) ==
    Has(response.content, "model_used") /\ response.content.model_used = "fallback"

\* The message the gateway substitutes for each specialist when its request fails.
FixedMessage(agent) ==
    CASE agent = "grabfood" -> "Food delivery analysis temporarily unavailable."
      [] agent = "grabexpress" -> "Express delivery system offline."
      [] agent = "customer_service" -> "We're experiencing technical difficulties."

\* C23: when the gateway's request fails during the specialist's call of an
\* execute step, the call still returns the specialist's message (not the error
\* message of a raised call), with the fixed fallback text of that specialist and
\* confidence 0.2, and the workflow goes on to validate with it.
C23_GatewayFailureContinues ==
    [][(ExecuteStep /\ Len(agent_responses') = Len(agent_responses) + 1
          /\ FromGatewayFailure(Latest'))
        => /\ Latest'.message_type # "error"
           /\ Latest'.agent_id = AgentId(current_agent)
           /\ TextOf(Latest') = FixedMessage(current_agent)
           /\ Latest'.confidence = 200
           /\ confidence_score' = 200
           /\ node' = "validate_solution"
           /\ result' = result]_vars

\* A failed gateway call's result is waiting to be validated.
C23_Witness ==
    /\ node = "validate_solution"
    /\ agent_responses # <<>>
    /\ FromGatewayFailure(Latest)
    /\ Latest.confidence = 200
    /\ result = NoResult

\* ------------------------------------------------------ confidences of the core

\* A confidence in thousandths lies in [0,1].
InUnit(c) == 0 <= c /\ c <= 1000

Tiers == {"critical", "high", "medium"}

\* C24: in every reachable state every confidence the core has produced lies in
\* [0,1]: the workflow's confidence_score, the confidence of each AgentResult and
\* of each specialist's message, the gateway's response, each TaskResult's
\* confidence, the synthesis confidence and the aggregated confidence; and the
\* priority tier of every TaskResult is critical, high or medium.
C24_ConfidencesInRange ==
    /\ InUnit(confidence_score)
    /\ \A i \in 1..Len(agent_responses) :
          InUnit(agent_responses[i].response.confidence)
    /\ result.kind \in {"final_state", "error_state"} =>
          InUnit(result.confidence_score)
    /\ \A i \in 1..Len(task_results) :
          /\ InUnit(task_results[i].confidence)
          /\ task_results[i].priority \in Tiers
    /\ returned # NoResult =>
          /\ \A i \in 1..Len(returned.task_results) :
                /\ InUnit(returned.task_results[i].confidence)
                /\ returned.task_results[i].priority \in Tiers
          /\ InUnit(returned.final_solution.synthesis_confidence)
          /\ returned.overall_confidence.den > 0
          /\ 0 <= returned.overall_confidence.num
          /\ returned.overall_confidence.num
                <= 1000 * returned.overall_confidence.den
    /\ gw_response # NoResult => InUnit(gw_response.confidence)
    /\ InUnit(ag_confidence)
    /\ ag_message.kind = "message" => InUnit(ag_message.confidence)

\* An execute call returned results of two tiers, one of them the gateway's
\* fallback, with its aggregated confidence.
C24_Witness ==
    /\ returned # NoResult
    /\ \E i, j \in 1..Len(returned.task_results) :
          /\ returned.task_results[i].priority = "critical"
          /\ returned.task_results[j].priority = "high"
          /\ returned.task_results[i].confidence = FallbackConfidence
    /\ returned.overall_confidence.num > 0

\* ------------------------------------------------- the Scheduler's switch frame

\* The for loop is at a task whose backend is the one loaded.
AtTaskOnLoadedBackend ==
    /\ pc = "loop"
    /\ idx <= Len(recommended_tasks)
    /\ recommended_tasks[idx].model = current_loaded_model

SwitchFrame ==
    /\ current_loaded_model' = current_loaded_model
    /\ model_switch_count' = model_switch_count

\* C25: a task whose backend equals current_loaded_model is processed without the
\* switch delay and with current_loaded_model and model_switch_count unchanged,
\* through the gateway call and its return; model_switch_count changes only by
\* +1, and only in a step that changes current_loaded_model to a different backend.
C25_NoSwitchFrame ==
    [][/\ AtTaskOnLoadedBackend => (pc' = "gateway" /\ SwitchFrame)
       /\ pc = "gateway" => SwitchFrame
       /\ model_switch_count' # model_switch_count =>
             /\ model_switch_count' = model_switch_count + 1
             /\ current_loaded_model' # current_loaded_model
             /\ current_loaded_model' = recommended_tasks[idx].model
       /\ current_loaded_model' # current_loaded_model =>
             model_switch_count' = model_switch_count + 1]_vars

\* A task after the first was served by the backend already loaded: its result is
\* there and no switch was started for it.
C25_Witness ==
    /\ pc = "loop"
    /\ idx >= 3
    /\ Events("return", idx - 1) # {}
    /\ Events("switch_start", idx - 1) = {}
    /\ Events("switch_start", idx - 2) # {}
    /\ model_switch_count = start_count + 1

\* Switches completed during the execute call that is running or has just returned.
SwitchesPerformed ==
    Cardinality({p \in 1..Len(trace) : trace[p].ev = "switch_done"})

\* C26 as stated: the switch count an execute call returns equals the number of
\* switches performed during that call, every call having started from a count
\* of 0 and no loaded backend, also on a Scheduler that has completed earlier calls.
C26_Original ==
    ExecuteReturned =>
        /\ returned.model_switches = SwitchesPerformed
        /\ FreshStart

\* C27 as stated: for every task the Scheduler has executed, the backend recorded
\* in its TaskResult is the backend that served the task's gateway call: the model
\* named in the gateway's request is the task's assigned backend.
C27_Original ==
    \A i \in 1..Len(task_results) :
        \A p \in Events("call", i) : trace[p].model = task_results[i].model

\* type(agent).__name__ of each specialist.
ClassName(kind) ==
    CASE kind = "grabfood" -> "GrabFoodAgent"
      [] kind = "grabexpress" -> "GrabExpressAgent"
      [] OTHER -> "CustomerServiceAgent"

\* C28 as stated: every AgentMessage a specialist's process_task returns carries
\* an agent_id equal to the class name of the agent that produced it.
C28_Original ==
    MessageReturned => ag_message.agent_id = ClassName(ag_kind)

\* How many of the agent's complex signals fire on the task (food and express).
ComplexSignalCount ==
    IF ag_kind = "grabfood" THEN Sum(FoodComplexFactors(ag_task))
    ELSE Sum(ExpressComplexFactors(ag_task))

\* C29: for the food and express specialists the urgency is urgent if at least two
\* urgent signals fire, otherwise complex if at least two complex signals fire,
\* otherwise medium; urgent wins when both thresholds are met, and the result is
\* always one of urgent, complex, medium.
C29_ThreeTierUrgency ==
    (RequestMade /\ ag_kind \in {"grabfood", "grabexpress"}) =>
        /\ ag_request.urgency \in {"urgent", "complex", "medium"}
        /\ UrgentSignalCount >= 2 => ag_request.urgency = "urgent"
        /\ (UrgentSignalCount < 2 /\ ComplexSignalCount >= 2)
              => ag_request.urgency = "complex"
        /\ (UrgentSignalCount < 2 /\ ComplexSignalCount < 2)
              => ag_request.urgency = "medium"

\* Both thresholds were met on a food task and the request went out as urgent.
C29_Witness ==
    /\ RequestMade
    /\ ag_kind = "grabfood"
    /\ UrgentSignalCount >= 2
    /\ ComplexSignalCount >= 2
    /\ ag_request.urgency = "urgent"

\* ------------------------------------------------- the selected specialist's frame

\* The nodes that run after route_to_specialist.
AfterRoute == {"execute_specialist_task", "validate_solution",
               "customer_communication", "escalate_to_human", "finalize_solution"}

\* C30: once route has run, no step of execute, validate, the retried execute,
\* communicate, escalate or finalize changes current_agent, only execute adds to
\* agent_responses, and every entry accumulated in the run, over all retries,
\* names the specialist route selected and comes from that specialist (or from
\* the except branch answering for it).
C30_SpecialistFixed ==
    [][/\ node \in AfterRoute =>
            /\ current_agent' = current_agent
            /\ node # "execute_specialist_task" => agent_responses' = agent_responses
            /\ \A i \in 1..Len(agent_responses) :
                  agent_responses'[i] = agent_responses[i]
       /\ node' \in AfterRoute \cup {"END"} =>
            \A i \in 1..Len(agent_responses') :
               /\ agent_responses'[i].agent = current_agent'
               /\ agent_responses'[i].response.agent_id
                     \in {AgentId(current_agent'), current_agent'}]_vars

\* A run of the food specialist retried, passed the gate, and the customer-service
\* specialist wrote the communication: both results are the food specialist's.
C30_Witness ==
    /\ node = "finalize_solution"
    /\ current_agent = "grabfood"
    /\ Len(agent_responses) >= 2
    /\ \A i \in 1..Len(agent_responses) :
          agent_responses[i].response.agent_id = "grabfood_specialist"
    /\ Has(final_solution, "customer_communication")
    /\ final_solution.customer_communication.agent_id = "customer_service_specialist"

\* ------------------------------------------------ the backend a task is served on

\* C31: in an execute call that runs alone, whenever the gateway call of a task
\* is under way current_loaded_model is that task's assigned backend, and when
\* execute returns with a non-empty task list current_loaded_model is the backend
\* of the last task.
C31_LoadedBackendServes ==
    /\ pc = "gateway" => current_loaded_model = recommended_tasks[idx].model
    /\ (ExecuteReturned /\ recommended_tasks # <<>>) =>
          current_loaded_model = recommended_tasks[Len(recommended_tasks)].model

\* A second execute call on the Scheduler returned after at least two tasks, the
\* last of them on a backend other than the one the first task ran on.
C31_Witness ==
    /\ ExecuteReturned
    /\ runs = 2
    /\ Len(recommended_tasks) >= 2
    /\ recommended_tasks[1].model # recommended_tasks[Len(recommended_tasks)].model
    /\ current_loaded_model = recommended_tasks[Len(recommended_tasks)].model

\* ------------------------------------------------------- concurrent execute calls

\* Coroutine c sends the gateway request of a task in this step.
IssuesCall(c) == co_pc[c] # "gateway" /\ co_pc'[c] = "gateway"

\* Every gateway request of a task is sent while current_loaded_model is the
\* task's assigned backend.
CallsOnLoadedBackend ==
    \A c \in Coroutines :
        IssuesCall(c) => current_loaded_model' = co_tasks[c][co_idx[c]].model

\* C32 as stated: when two execute calls run interleaved on one Scheduler, every
\* gateway request of a task is sent while current_loaded_model is the task's
\* assigned backend, and model_switch_count equals the number of times
\* current_loaded_model changed value.
C32_Original ==
    [][CallsOnLoadedBackend /\ model_switch_count' = co_changes']_vars

\* The part of C32 that holds: the request of a task is sent on its backend.
C32_CallsOnLoadedBackend == [][CallsOnLoadedBackend]_vars

\* ------------------------------------------------------- the synthesis anchor

HasStrategicPlanning ==
    \E i \in 1..Len(recommended_tasks) :
        recommended_tasks[i].task = "strategic_planning"

\* C33 as stated: whenever the Router emits two or more tasks, a
\* strategic-planning task is among them.
C33_Original ==
    (RouterRan /\ Len(recommended_tasks) >= 2) => HasStrategicPlanning

\* C33, amended: the Router emits a strategic-planning task exactly when two or
\* more of the three signal groups fire or the urgency is high or complex; so
\* every list of three or more tasks holds one, and a list of two tasks without
\* one is a single signal task followed by the emergency-response task that the
\* emergency marker alone called for.
C33_SynthesisAnchor ==
    RouterRan =>
        /\ HasStrategicPlanning <=>
              \/ SignalCount(problem_context) >= 2
              \/ UrgencyOf(problem_context) \in {"high", "complex"}
        /\ Len(recommended_tasks) >= 3 => HasStrategicPlanning
        /\ (Len(recommended_tasks) = 2 /\ ~HasStrategicPlanning) =>
              /\ SignalCount(problem_context) = 1
              /\ recommended_tasks[2].task = "emergency_response"
              /\ UrgencyOf(problem_context) = "medium"
              /\ Fires({"emergency"}, problem_context)

\* The Router emitted a routing task and an emergency-response task and nothing else.
C33_Witness ==
    /\ RouterRan
    /\ Len(recommended_tasks) = 2
    /\ recommended_tasks[1].task = "route_optimization"
    /\ recommended_tasks[2].task = "emergency_response"
    /\ ~HasStrategicPlanning

\* --------------------------------------------------- distinct backends per task kind

\* C34: the default table binds the five task kinds to five pairwise distinct
\* backends; hence an execute call on a freshly constructed Scheduler configured
\* with it switches once for every task of the Router's list, and the switch count
\* it returns and holds is the number of tasks.
C34_SwitchPerTask ==
    /\ \A t, u \in TaskTypes : t # u => DefaultMapping[t] # DefaultMapping[u]
    /\ (ExecuteReturned /\ FreshStart /\ task_model_mapping = DefaultMapping) =>
          /\ \A i \in 1..Len(recommended_tasks) :
                Cardinality(Events("switch_done", i)) = 1
          /\ SwitchesPerformed = Len(recommended_tasks)
          /\ returned.model_switches = Len(recommended_tasks)
          /\ model_switch_count = Len(recommended_tasks)

\* A fresh Scheduler on the default table returned from a list of all five kinds.
C34_Witness ==
    /\ ExecuteReturned
    /\ FreshStart
    /\ task_model_mapping = DefaultMapping
    /\ Len(recommended_tasks) = 5
    /\ returned.model_switches = 5

\* ------------------------------------------------- the specialist's escalation flag

\* The response_dict carries requires_escalation and it is true.
RequiresEscalation(response) ==
    Has(response.content, "requires_escalation")
    /\ response.content.requires_escalation

FoodOrExpress == current_agent \in {"grabfood", "grabexpress"}

\* C35 as stated: for the food and express specialists validate routes to escalate
\* if and only if the latest AgentResult has requires_escalation true.
C35_Original ==
    [][(ValidateStep /\ FoodOrExpress) =>
         (node' = "escalate_to_human" <=> RequiresEscalation(Latest))]_vars

\* C35 as the code has it: a result built from the food or express specialist's own
\* message carries the flag, and validate routes to escalate exactly when it is
\* true; the result built when the specialist raised carries no flag, and validate
\* routes to escalate on it.
C35_FlagAgrees ==
    [][(ValidateStep /\ FoodOrExpress) =>
         /\ Latest.message_type \in {"task_completion", "error"}
         /\ Latest.message_type = "task_completion" =>
               /\ Has(Latest.content, "requires_escalation")
               /\ node' = "escalate_to_human" <=> RequiresEscalation(Latest)
         /\ Latest.message_type = "error" =>
               /\ ~Has(Latest.content, "requires_escalation")
               /\ node' = "escalate_to_human"]_vars

\* Validate has routed a generated food answer scored 0.55, flagged by the
\* specialist, to escalate.
C35_Witness ==
    /\ node = "escalate_to_human"
    /\ current_agent = "grabfood"
    /\ Latest.message_type = "task_completion"
    /\ Latest.confidence = 550
    /\ RequiresEscalation(Latest)
    /\ ~FromGatewayFailure(Latest)

\* ------------------------------------------------------ what can lead to escalate

\* Every score _calculate_confidence gives, over the texts and agent types.
GatewayScores == {CalculateConfidence(c, t) : c \in Contents, t \in AgentTypes}

\* C36: every confidence the gateway computes from a generated text is at least
\* 0.55, so the lower clamp of 0.1 never binds, and 0.55 is computed; a run at
\* escalate has as its latest AgentResult the error result of a raised specialist
\* (0.3), a gateway fallback (0.2), or a generated answer below 0.6, which, when
\* it is a score the gateway computes, is exactly 0.55.
C36_EscalateSources ==
    /\ \A s \in GatewayScores : s >= 550 /\ s > 100
    /\ 550 \in GatewayScores
    /\ node = "escalate_to_human" =>
          \/ Latest.message_type = "error" /\ Latest.confidence = 300
          \/ FromGatewayFailure(Latest) /\ Latest.confidence = 200
          \/ /\ Latest.message_type # "error"
             /\ ~FromGatewayFailure(Latest)
             /\ Latest.confidence < 600
             /\ Latest.confidence \in GatewayScores => Latest.confidence = 550

\* The express specialist's first answer was retried and its second, a generated
\* text scored 0.55, took the run to escalate.
C36_Witness ==
    /\ node = "escalate_to_human"
    /\ current_agent = "grabexpress"
    /\ Len(agent_responses) = 2
    /\ agent_responses[1].response.confidence = 700
    /\ Latest.message_type = "task_completion"
    /\ ~FromGatewayFailure(Latest)
    /\ Latest.confidence = 550

\* ------------------------------------------------------- failed specialist attempts

\* The latest attempt came back from a failed gateway request (0.2) or from the
\* except branch of execute_specialist_task (0.3).
FailedAttempt ==
    /\ agent_responses # <<>>
    /\ \/ Latest.message_type = "error" /\ Latest.confidence = 300
       \/ FromGatewayFailure(Latest) /\ Latest.confidence = 200

HasContext(r) == Has(r.final_solution, "escalation_context")

HasCommunication(r) == Has(r.final_solution, "customer_communication")

\* A step hands the caller the error state of process_disruption's except branch.
FaultStep == result.kind = "none" /\ result'.kind = "error_state"

\* C38: no returned result carries both an escalation_context and a
\* customer_communication; the escalate step and the top-level fault return
\* escalation_needed true, the finalize step returns it false, and in a returned
\* result the flag is true exactly for those two endings.
C38_ExclusiveOutcomes ==
    /\ [](Ended =>
            /\ ~(HasContext(result) /\ HasCommunication(result))
            /\ result.escalation_needed
                  <=> (result.kind = "error_state" \/ HasContext(result))
            /\ ~result.escalation_needed
                  <=> (result.kind = "final_state" /\ HasCommunication(result)))
    /\ [][EscalateStep =>
            /\ result'.kind = "final_state"
            /\ result'.escalation_needed
            /\ HasContext(result')
            /\ ~HasCommunication(result')]_vars
    /\ [][(FinalizeStep /\ steps' = steps + 1) =>
            /\ result'.kind = "final_state"
            /\ ~result'.escalation_needed
            /\ HasCommunication(result')
            /\ ~HasContext(result')]_vars
    /\ [][FaultStep =>
            /\ result'.escalation_needed
            /\ ~HasContext(result')
            /\ ~HasCommunication(result')]_vars
    /\ [][(result.kind = "none" /\ result'.kind # "none") =>
            (EscalateStep \/ (FinalizeStep /\ steps' = steps + 1) \/ FaultStep)]_vars

\* A run finalized after one retry: the result carries the customer communication,
\* no escalation context, and escalation_needed false.
C38_Witness ==
    /\ result.kind = "final_state"
    /\ ~result.escalation_needed
    /\ HasCommunication(result)
    /\ ~HasContext(result)
    /\ Len(result.agent_responses) = 2

\* --------------------------------------------------- the list of AgentResults

\* An execute step that returned its state (the step was counted).
ExecuteDone == ExecuteStep /\ steps' = steps + 1

\* The list grew by one entry at its end.
AppendedOne ==
    /\ Len(agent_responses') = Len(agent_responses) + 1
    /\ \A i \in 1..Len(agent_responses) : agent_responses'[i] = agent_responses[i]

NoSignal(ctx) ==
    /\ SignalCount(ctx) = 0
    /\ UrgencyOf(ctx) \notin {"high", "complex"}
    /\ ~Fires({"emergency"}, ctx)

TaskEvents == {p \in 1..Len(trace) : trace[p].ev # "synthesis_call"}

\* C40: the Router emits no task exactly when no signal group fires, the urgency
\* is neither high nor complex and there is no emergency marker; execute then
\* makes no switch and no per-task gateway call, leaves current_loaded_model and
\* model_switch_count as they were, issues exactly one synthesis call (with no
\* section), and returns no task result and an overall confidence of 0.
C40_EmptyTaskList ==
    /\ RouterRan => (NoSignal(problem_context) <=> recommended_tasks = <<>>)
    /\ (RouterRan /\ NoSignal(problem_context)) =>
          /\ TaskEvents = {}
          /\ task_results = <<>>
          /\ current_loaded_model = start_model
          /\ model_switch_count = start_count
    /\ (ExecuteReturned /\ NoSignal(problem_context)) =>
          /\ Cardinality(SynthesisCalls) = 1
          /\ trace[1].sections = <<>>
          /\ returned.task_results = <<>>
          /\ returned.model_switches = start_count
          /\ returned.overall_confidence.num = 0
          /\ returned.overall_confidence.den > 0

\* A Scheduler that had switched in an earlier call returned from a call whose
\* record gave the Router nothing: model and count are those of the earlier call.
C40_Witness ==
    /\ ExecuteReturned
    /\ runs = 2
    /\ NoSignal(problem_context)
    /\ recommended_tasks = <<>>
    /\ start_count > 0
    /\ model_switch_count = start_count
    /\ current_loaded_model # None
    /\ Len(trace) = 1

====
